---- MODULE Spec2Model ----
(***************************************************************************)
(* Ant-colony-optimisation visualizer: the simulation engine               *)
(* (lib/aco/models.ts, lib/aco/algorithm.ts), the page component that      *)
(* drives it with a timer (pages/Index.tsx) and the graph editor           *)
(* (components/GraphEditor.tsx).                                           *)
(*                                                                         *)
(* JavaScript numbers are modelled as exact rationals <<n, d>> (d > 0,     *)
(* lowest terms) extended with the IEEE values +Infinity = <<1, 0>>,       *)
(* -Infinity = <<-1, 0>> and NaN = <<0, 0>>.  Math.random() is an input   *)
(* drawn from a small set of rationals in [0, 1).  Node coordinates are    *)
(* drawn from a lattice on which Math.sqrt is exact.                       *)
(***************************************************************************)
EXTENDS Integers, Sequences, FiniteSets, TLC

\* ------------------------------------------------------------------ bounds
MaxNodes == 3
MaxAnts == 2
MaxIterations == 2
MaxAddedNodes == 1
MaxUpdates == 2
MaxTicks == 4
MaxDraws == 3

\* ------------------------------------------------------- program constants
\* Index.tsx: a simulation needs at least this many nodes.
MinStartNodes == 3
\* models.ts: initial pheromone level of a created edge (1.0).
InitialPheromone == 1
\* models.ts: initialState.speed.
InitialSpeed == 500

\* --------------------------------------------------------------- numbers
\* The one element of a set of one element. An operand bound through a
\* one-element set is evaluated once, however often the operator reads it.
Only(S) == CHOOSE x \in S : TRUE

RECURSIVE Gcd(_, _)
Gcd(a, b) == IF b = 0 THEN a ELSE Only({ Gcd(b, r) : r \in {a % b} })

Abs(i) == IF i < 0 THEN 0 - i ELSE i

\* The rational n/d (d > 0) in lowest terms.
Rat(numerator, denominator) ==
  Only({ LET g == Gcd(Abs(n), d) IN <<n \div g, d \div g>> :
         n \in {numerator}, d \in {denominator} })

Num(i) == <<i, 1>>
Infinity == <<1, 0>>
NaN == <<0, 0>>

IsNaN(a) == a[1] = 0 /\ a[2] = 0
IsInfinite(a) == a[1] # 0 /\ a[2] = 0
Sign(a) == IF a[1] > 0 THEN 1 ELSE IF a[1] < 0 THEN 0 - 1 ELSE 0

\* a + b
Add(left, right) ==
  Only({
      IF IsNaN(a) \/ IsNaN(b) THEN NaN
      ELSE IF IsInfinite(a) /\ IsInfinite(b) THEN (IF a = b THEN a ELSE NaN)
      ELSE IF IsInfinite(a) THEN a
      ELSE IF IsInfinite(b) THEN b
      ELSE LET l == (a[2] \div Gcd(a[2], b[2])) * b[2]
           IN Rat(a[1] * (l \div a[2]) + b[1] * (l \div b[2]), l) :
    a \in {left}, b \in {right} })

\* a * b
Mul(left, right) ==
  Only({
      IF IsNaN(a) \/ IsNaN(b) THEN NaN
      ELSE IF IsInfinite(a) \/ IsInfinite(b)
           THEN (IF Sign(a) * Sign(b) = 0 THEN NaN ELSE <<Sign(a) * Sign(b), 0>>)
      ELSE LET g1 == Gcd(Abs(a[1]), b[2])
               g2 == Gcd(Abs(b[1]), a[2])
           IN Rat((a[1] \div g1) * (b[1] \div g2), (a[2] \div g2) * (b[2] \div g1)) :
    a \in {left}, b \in {right} })

\* a - b
Sub(a, b) == Add(a, <<0 - b[1], b[2]>>)

\* a / b  (x / 0 is +-Infinity for x # 0, NaN for x = 0)
Div(left, right) ==
  Only({
      IF IsNaN(a) \/ IsNaN(b) THEN NaN
      ELSE IF IsInfinite(a) /\ IsInfinite(b) THEN NaN
      ELSE IF IsInfinite(a) THEN <<Sign(a) * (IF Sign(b) < 0 THEN 0 - 1 ELSE 1), 0>>
      ELSE IF IsInfinite(b) THEN Num(0)
      ELSE IF b[1] = 0 THEN (IF a[1] = 0 THEN NaN ELSE <<Sign(a), 0>>)
      ELSE Mul(a, <<Sign(b) * b[2], Abs(b[1])>>) :
    a \in {left}, b \in {right} })

\* a < b for operands that are not NaN: both sides brought to the common
\* denominator (a cross-multiplication when an operand is infinite).
Less(left, right) ==
  Only({
      IF a[2] = 0 \/ b[2] = 0 THEN a[1] * b[2] < b[1] * a[2]
      ELSE LET g == Gcd(a[2], b[2])
           IN a[1] * (b[2] \div g) < b[1] * (a[2] \div g) :
    a \in {left}, b \in {right} })

\* a < b and a >= b: false whenever an operand is NaN.
Lt(left, right) ==
  Only({ ~IsNaN(a) /\ ~IsNaN(b) /\ Less(a, b) : a \in {left}, b \in {right} })
Geq(left, right) ==
  Only({ ~IsNaN(a) /\ ~IsNaN(b) /\ ~Less(a, b) : a \in {left}, b \in {right} })

\* Math.pow(a, k) for an integer exponent k >= 0; Math.pow(x, 0) is 1 for
\* every x, NaN included.
RECURSIVE Pow(_, _)
Pow(a, k) == IF k = 0 THEN Num(1) ELSE Mul(a, Pow(a, k - 1))

\* Math.sqrt on a non-negative integer, rounded down; exact on the squares
\* the coordinate lattice produces.
Sqrt(i) == Num(CHOOSE k \in 0..i : k * k <= i /\ (k + 1) * (k + 1) > i)

\* ------------------------------------------------------------ data model
NoNode == 0 - 1

initialState ==
  [ graph |-> [nodes |-> <<>>, edges |-> <<>>],
    ants |-> <<>>,
    bestTour |-> <<>>,
    bestTourLength |-> Infinity,
    currentIteration |-> 0,
    running |-> FALSE,
    speed |-> InitialSpeed ]

\* ------------------------------------------------- engine: algorithm.ts
\* The array with the elements f[1], ..., f[n], each evaluated once
\* (Array.prototype.map builds its result before anything reads it).
Array(f) == <<>> \o f

\* edges.find(e => e.source === source && e.target === target): the index
\* (1-based) of the first such edge, or 0 for undefined.
FindEdge(edges, source, target) ==
  LET hits == { k \in 1..Len(edges) :
                  edges[k].source = source /\ edges[k].target = target }
  IN IF hits = {} THEN 0 ELSE CHOOSE k \in hits : \A m \in hits : k <= m

\* edges.find(e => e.target === target): index of the first, or 0.
FindTarget(edges, target) ==
  LET hits == { k \in 1..Len(edges) : edges[k].target = target }
  IN IF hits = {} THEN 0 ELSE CHOOSE k \in hits : \A m \in hits : k <= m

Includes(seq, v) == \E k \in 1..Len(seq) : seq[k] = v

\* Math.sqrt(Math.pow(source.x - target.x, 2) + Math.pow(source.y - target.y, 2))
EuclideanDistance(source, target) ==
  Sqrt((source.x - target.x) * (source.x - target.x)
       + (source.y - target.y) * (source.y - target.y))

\* A faulty variant of the nested loops: the inner loop starts at j = i + 1,
\* so each pair of nodes gets an edge in one direction only.
RECURSIVE GenerateEdgesOneWay(_, _, _, _)
GenerateEdgesOneWay(nodes, i, j, edges) ==
  IF i > Len(nodes) THEN edges
  ELSE IF j > Len(nodes) THEN GenerateEdgesOneWay(nodes, i + 1, 1, edges)
  ELSE IF i < j
       THEN GenerateEdgesOneWay(nodes, i, j + 1,
              Append(edges, [ source |-> nodes[i].id,
                              target |-> nodes[j].id,
                              distance |-> Sqrt((nodes[i].x - nodes[j].x) * (nodes[i].x - nodes[j].x)
                                                + (nodes[i].y - nodes[j].y) * (nodes[i].y - nodes[j].y)),
                              pheromone |-> <<1, 1>> ]))
  ELSE GenerateEdgesOneWay(nodes, i, j + 1, edges)

\* The nested loops of generateRandomGraph: for i, for j, if (i !== j) push.
RECURSIVE GenerateEdges(_, _, _, _)
GenerateEdges(nodes, i, j, edges) ==
  IF i > Len(nodes) THEN edges
  ELSE IF j > Len(nodes) THEN GenerateEdges(nodes, i + 1, 1, edges)
  ELSE IF i # j
       THEN GenerateEdges(nodes, i, j + 1,
              Append(edges, [ source |-> nodes[i].id,
                              target |-> nodes[j].id,
                              distance |-> EuclideanDistance(nodes[i], nodes[j]),
                              pheromone |-> Num(InitialPheromone) ]))
  ELSE GenerateEdges(nodes, i, j + 1, edges)

\* generateRandomGraph(nodeCount, width, height); xs and ys are the random
\* coordinates drawn for the nodes (sequences of length nodeCount).
generateRandomGraph(nodeCount, xs, ys) ==
  LET nodes == Array([i \in 1..nodeCount |-> [id |-> i - 1, x |-> xs[i], y |-> ys[i]]])
  IN [nodes |-> nodes, edges |-> GenerateEdges(nodes, 1, 1, <<>>)]

\* initializeAnts(graph, count); idx[i] is Math.floor(Math.random() *
\* graph.nodes.length) of the i-th draw (0-based index into graph.nodes).
initializeAnts(graph, count, idx) ==
  Array([i \in 1..count |->
           LET startNodeId == graph.nodes[idx[i] + 1].id
           IN [ id |-> i - 1,
                currentNode |-> startNodeId,
                visitedNodes |-> <<startNodeId>>,
                tourLength |-> Num(0) ]])

\* A faulty variant of the candidate filter: visited targets are kept.
getAvailableEdgesRevisiting(graph, ant) ==
  LET Available(edge) == edge.source = ant.currentNode
  IN SelectSeq(graph.edges, Available)

getAvailableEdges(graph, ant) ==
  LET Available(edge) ==
        edge.source = ant.currentNode /\ ~Includes(ant.visitedNodes, edge.target)
  IN SelectSeq(graph.edges, Available)

\* A faulty variant of the desirability of an edge: the distance of the edge
\* is left out.
ProbabilityNoDistance(edge, params) == Pow(edge.pheromone, params.alpha)

\* pheromone^alpha * (1/distance)^beta
Probability(edge, params) ==
  Mul(Pow(edge.pheromone, params.alpha),
      Pow(Div(Num(1), edge.distance), params.beta))

RECURSIVE SumSeq(_, _)
SumSeq(seq, k) == IF k = 0 THEN Num(0) ELSE Add(SumSeq(seq, k - 1), seq[k])

\* A faulty variant of the roulette-wheel loop: no fallback after the loop,
\* so an exhausted walk selects no node.
RECURSIVE RouletteWalkNoFallback(_, _, _, _, _)
RouletteWalkNoFallback(availableEdges, probabilities, k, accumulator, random) ==
  IF k > Len(availableEdges)
  THEN NoNode
  ELSE LET acc == Add(accumulator, probabilities[k])
       IN IF Geq(acc, random)
          THEN availableEdges[k].target
          ELSE RouletteWalkNoFallback(availableEdges, probabilities, k + 1, acc, random)

\* The roulette-wheel loop of selectNextNode from candidate k on.
RECURSIVE RouletteWalk(_, _, _, _, _)
RouletteWalk(availableEdges, probabilities, k, accumulator, random) ==
  IF k > Len(availableEdges)
  THEN availableEdges[1].target   \* fallback to the first available edge
  ELSE Only({ IF Geq(acc, random)
              THEN availableEdges[k].target
              ELSE RouletteWalk(availableEdges, probabilities, k + 1, acc, random) :
              acc \in { Add(accumulator, probabilities[k]) } })

\* selectNextNode(availableEdges, params); u is the value of Math.random().
selectNextNode(availableEdges, params, u) ==
  IF Len(availableEdges) = 0 THEN NoNode
  ELSE Only({ Only({ Only({ RouletteWalk(availableEdges, probabilities, 1, Num(0), random) :
                            random \in { Mul(u, total) } }) :
                     total \in { SumSeq(probabilities, Len(probabilities)) } }) :
              probabilities \in
                { Array([k \in 1..Len(availableEdges) |->
                           Probability(availableEdges[k], params)]) } })

\* The first loop of calculateTourLength, from position i (1-based) on.
RECURSIVE TourLoop(_, _, _, _)
TourLoop(graph, tour, i, length) ==
  IF i > Len(tour) - 1 THEN length
  ELSE LET e == FindEdge(graph.edges, tour[i], tour[i + 1])
       IN TourLoop(graph, tour, i + 1,
                   IF e # 0 THEN Add(length, graph.edges[e].distance) ELSE length)

\* A faulty variant of calculateTourLength: the closing edge is left out.
calculateTourLengthOpen(graph, tour) == TourLoop(graph, tour, 1, Num(0))

calculateTourLength(graph, tour) ==
  LET length == TourLoop(graph, tour, 1, Num(0))
  IN IF Len(tour) > 1
     THEN LET lastEdge == FindEdge(graph.edges, tour[Len(tour)], tour[1])
          IN IF lastEdge # 0
             THEN Add(length, graph.edges[lastEdge].distance)
             ELSE length
     ELSE length

\* A faulty variant of the move of one ant: the ant closes its tour as soon
\* as it has visited as many nodes as the graph has, whether or not an edge
\* leads back to its start.
MoveAntNoReturnEdge(state, params, ant, u) ==
  IF Len(ant.visitedNodes) = Len(state.graph.nodes)
  THEN [ant EXCEPT !.currentNode = ant.visitedNodes[1],
                   !.visitedNodes = Append(@, ant.visitedNodes[1])]
  ELSE LET availableEdges == getAvailableEdges(state.graph, ant)
           nextNode == selectNextNode(availableEdges, params, u)
           selectedEdge == FindTarget(availableEdges, nextNode)
       IN IF Len(availableEdges) = 0 THEN ant
          ELSE [ant EXCEPT !.currentNode = nextNode,
                           !.visitedNodes = Append(@, nextNode),
                           !.tourLength =
                              Add(@, availableEdges[selectedEdge].distance)]

\* The callback moveAnts maps over state.ants; u is the ant's Math.random().
MoveAnt(state, params, ant, u) ==
  IF Len(ant.visitedNodes) = Len(state.graph.nodes)
  THEN LET startNode == ant.visitedNodes[1]
       IN Only({ IF returnEdge # 0
                 THEN [ant EXCEPT !.currentNode = startNode,
                                  !.visitedNodes = Append(@, startNode),
                                  !.tourLength =
                                     Add(@, state.graph.edges[returnEdge].distance)]
                 ELSE ant :
                 returnEdge \in
                   { FindEdge(state.graph.edges, ant.currentNode, startNode) } })
  ELSE Only({ IF Len(availableEdges) = 0 THEN ant
              ELSE Only({ Only({ IF nextNode = NoNode THEN ant
                                 ELSE IF selectedEdge = 0 THEN ant
                                 ELSE [ant EXCEPT
                                         !.currentNode = nextNode,
                                         !.visitedNodes = Append(@, nextNode),
                                         !.tourLength =
                                            Add(@, availableEdges[selectedEdge].distance)] :
                                 selectedEdge \in
                                   { FindTarget(availableEdges, nextNode) } }) :
                          nextNode \in { selectNextNode(availableEdges, params, u) } }) :
              availableEdges \in { getAvailableEdges(state.graph, ant) } })

\* moveAnts(state, params); us[i] is the Math.random() of ant i.
moveAnts(state, params, us) ==
  Only({ Array([i \in 1..Len(st.ants) |->
                  Only({ MoveAnt(st, params, ant, us[i]) : ant \in { st.ants[i] } })]) :
         st \in { state } })

\* A faulty variant of the deposit loop: it stops one pair early, so the
\* closing pair of the tour gets no deposit.
RECURSIVE DepositTourOpen(_, _, _, _)
DepositTourOpen(updatedEdges, ant, i, deposit) ==
  IF i > Len(ant.visitedNodes) - 2 THEN updatedEdges
  ELSE LET edgeIndex ==
             FindEdge(updatedEdges, ant.visitedNodes[i], ant.visitedNodes[i + 1])
       IN DepositTourOpen(
            IF edgeIndex # 0
            THEN [updatedEdges EXCEPT ![edgeIndex].pheromone = Add(@, deposit)]
            ELSE updatedEdges,
            ant, i + 1, deposit)

\* The deposit loop of one ant in updatePheromones, from position i on.
RECURSIVE DepositTour(_, _, _, _)
DepositTour(updatedEdges, ant, i, deposit) ==
  IF i > Len(ant.visitedNodes) - 1 THEN updatedEdges
  ELSE Only({ Only({ DepositTour(edges, ant, i + 1, deposit) :
                     edges \in
                       { IF edgeIndex # 0
                         THEN [updatedEdges EXCEPT ![edgeIndex].pheromone = Add(@, deposit)]
                         ELSE updatedEdges } }) :
              edgeIndex \in
                { FindEdge(updatedEdges, ant.visitedNodes[i], ant.visitedNodes[i + 1]) } })

\* ants.forEach(...) of updatePheromones, from ant k on.
RECURSIVE DepositAnts(_, _, _, _, _)
DepositAnts(updatedEdges, state, params, ants, k) ==
  IF k > Len(ants) THEN updatedEdges
  ELSE IF Len(ants[k].visitedNodes) <= Len(state.graph.nodes)
       THEN DepositAnts(updatedEdges, state, params, ants, k + 1)
       ELSE Only({ DepositAnts(edges, state, params, ants, k + 1) :
                   edges \in
                     { Only({ DepositTour(updatedEdges, ants[k], 1, deposit) :
                              deposit \in { Div(params.q, ants[k].tourLength) } }) } })

\* A faulty variant of updatePheromones: evaporation keeps the fraction rho
\* of the pheromone instead of 1 - rho.
updatePheromonesKeepRho(state, params) ==
  LET updatedEdges ==
        Array([k \in 1..Len(state.graph.edges) |->
                 [state.graph.edges[k] EXCEPT !.pheromone = Mul(@, params.rho)]])
  IN DepositAnts(updatedEdges, state, params, state.ants, 1)

\* A faulty variant of updatePheromones: the evaporation rate is subtracted
\* from the pheromone instead of scaling it.
updatePheromonesSubtractRho(state, params) ==
  LET updatedEdges ==
        Array([k \in 1..Len(state.graph.edges) |->
                 [state.graph.edges[k] EXCEPT !.pheromone = Sub(@, params.rho)]])
  IN DepositAnts(updatedEdges, state, params, state.ants, 1)

updatePheromones(state, params) ==
  Only({ Only({ DepositAnts(updatedEdges, st, params, st.ants, 1) :
                updatedEdges \in
                  { Array([k \in 1..Len(st.graph.edges) |->
                             [st.graph.edges[k] EXCEPT
                                !.pheromone = Mul(@, Sub(Num(1), params.rho))]]) } }) :
         st \in { state } })

\* A faulty variant of the best-tour scan: every ant replaces the best tour,
\* whatever its length.
RECURSIVE FindBestLast(_, _, _)
FindBestLast(ants, k, best) ==
  IF k > Len(ants) THEN best
  ELSE FindBestLast(ants, k + 1,
                    [tour |-> ants[k].visitedNodes, length |-> ants[k].tourLength])

\* A faulty variant of the best-tour scan: a shorter tour replaces the best
\* length but not the best tour.
RECURSIVE FindBestLengthOnly(_, _, _)
FindBestLengthOnly(ants, k, best) ==
  IF k > Len(ants) THEN best
  ELSE FindBestLengthOnly(ants, k + 1,
                          IF Lt(ants[k].tourLength, best.length)
                          THEN [tour |-> best.tour, length |-> ants[k].tourLength]
                          ELSE best)

\* ants.forEach(ant => if (ant.tourLength < bestTourLength) ...) of
\* performIteration, from ant k on; best = [tour, length].
RECURSIVE FindBest(_, _, _)
FindBest(ants, k, best) ==
  IF k > Len(ants) THEN best
  ELSE Only({ FindBest(ants, k + 1, next) :
              next \in
                { IF Lt(ants[k].tourLength, best.length)
                  THEN [tour |-> ants[k].visitedNodes, length |-> ants[k].tourLength]
                  ELSE best } })

\* A faulty variant of the respawn test: a completed ant anywhere in the
\* population makes the call start from a fresh population.
NeedsSpawnAnyCompleted(state) ==
  \/ Len(state.ants) = 0
  \/ \E k \in 1..Len(state.ants) :
       Len(state.ants[k].visitedNodes) > Len(state.graph.nodes)

\* The population performIteration moves: a fresh one when there are no ants
\* or ants[0] is completed.
NeedsSpawn(state) ==
  Len(state.ants) = 0 \/ Len(state.ants[1].visitedNodes) > Len(state.graph.nodes)

\* A faulty variant of the choice of the population: every call starts from
\* a fresh population.
StartingAntsAlwaysFresh(state, params, rnd) ==
  initializeAnts(state.graph, params.antCount, rnd.spawn)

StartingAnts(state, params, rnd) ==
  IF NeedsSpawn(state)
  THEN initializeAnts(state.graph, params.antCount, rnd.spawn)
  ELSE state.ants

\* The ants after the move step of performIteration (line 342).
MovedAnts(state, params, rnd) ==
  Only({ moveAnts([state EXCEPT !.ants = ants], params, rnd.move) :
         ants \in { StartingAnts(state, params, rnd) } })

\* A faulty variant of the completion test: ants.some instead of ants.every.
someTourCompleted(state, ants) ==
  \E k \in 1..Len(ants) : Len(ants[k].visitedNodes) > Len(state.graph.nodes)

allToursCompleted(state, ants) ==
  \A k \in 1..Len(ants) : Len(ants[k].visitedNodes) > Len(state.graph.nodes)

\* A faulty variant of the end of performIteration: the completed ants are
\* returned and replaced only by the next call.
IterationResultLateRespawn(state, params, ants, respawn) ==
  IF \A k \in 1..Len(ants) : Len(ants[k].visitedNodes) > Len(state.graph.nodes)
  THEN LET edges == updatePheromones([state EXCEPT !.ants = ants], params)
           best == FindBest(ants, 1, [tour |-> state.bestTour,
                                      length |-> state.bestTourLength])
       IN [state EXCEPT
             !.graph = [@ EXCEPT !.edges = edges],
             !.ants = ants,
             !.bestTour = best.tour,
             !.bestTourLength = best.length,
             !.currentIteration = @ + 1]
  ELSE [state EXCEPT !.ants = ants]

\* performIteration after the move step (lines 344-381): ants are the moved
\* ants, respawn the start indices drawn by the second initializeAnts call.
IterationResult(state, params, ants, respawn) ==
  IF allToursCompleted(state, ants)
  THEN Only({ [state EXCEPT
                 !.graph = [@ EXCEPT !.edges = edges],
                 !.ants = initializeAnts([state.graph EXCEPT !.edges = edges],
                                         params.antCount, respawn),
                 !.bestTour = best.tour,
                 !.bestTourLength = best.length,
                 !.currentIteration = @ + 1] :
              edges \in { updatePheromones([state EXCEPT !.ants = ants], params) },
              best \in { FindBest(ants, 1, [tour |-> state.bestTour,
                                            length |-> state.bestTourLength]) } })
  ELSE [state EXCEPT !.ants = ants]

\* performIteration(state, params); rnd holds the random draws of the call:
\* rnd.spawn and rnd.respawn the start indices of the two initializeAnts
\* calls, rnd.move the Math.random() of each ant's selectNextNode.
performIteration(state, params, rnd) ==
  IterationResult(state, params, MovedAnts(state, params, rnd), rnd.respawn)

\* ------------------------------------------- GraphEditor.tsx, Index.tsx
\* Index.handleNodesChange / handleEdgesChange: the value handed to setState,
\* built from the state of the render the handler was created in.
handleNodesChange(st, nodes) == [st EXCEPT !.graph = [@ EXCEPT !.nodes = nodes]]
handleEdgesChange(st, edges) == [st EXCEPT !.graph = [@ EXCEPT !.edges = edges]]

\* React applies the setState(value) calls of one event in order; with plain
\* values (no updater function) the state ends as the last value set.
SetStateAll(st, values) == IF Len(values) = 0 THEN st ELSE values[Len(values)]

\* `node-${Date.now()}`: an id later than every id in use.
RECURSIVE MaxOf(_)
MaxOf(S) == IF S = {} THEN 0 - 1
            ELSE LET x == CHOOSE y \in S : TRUE
                     m == MaxOf(S \ {x})
                 IN IF x > m THEN x ELSE m

IdsInUse(graph) ==
  {graph.nodes[k].id : k \in 1..Len(graph.nodes)}
  \cup {graph.edges[k].source : k \in 1..Len(graph.edges)}
  \cup {graph.edges[k].target : k \in 1..Len(graph.edges)}

NewNodeId(graph) == MaxOf(IdsInUse(graph)) + 1

\* nodes.forEach(existingNode => push both edges) of handleAddNode and
\* handleSvgClick, from node k on.
RECURSIVE AddEdges(_, _, _, _)
AddEdges(newEdges, nodes, newNode, k) ==
  IF k > Len(nodes) THEN newEdges
  ELSE LET existingNode == nodes[k]
           distance == EuclideanDistance(existingNode, newNode)
       IN AddEdges(
            newEdges \o << [ source |-> newNode.id, target |-> existingNode.id,
                             distance |-> distance,
                             pheromone |-> Num(InitialPheromone) ],
                           [ source |-> existingNode.id, target |-> newNode.id,
                             distance |-> distance,
                             pheromone |-> Num(InitialPheromone) ] >>,
            nodes, newNode, k + 1)

\* GraphEditor.handleSvgClick at (x, y), rendered with the props of st: the
\* state Index holds after the two callbacks.
handleSvgClick(st, x, y) ==
  LET nodes == st.graph.nodes
      edges == st.graph.edges
      newNode == [id |-> NewNodeId(st.graph), x |-> x, y |-> y]
      newEdges == AddEdges(edges, nodes, newNode, 1)
  IN SetStateAll(st, << handleNodesChange(st, Append(nodes, newNode)),
                        handleEdgesChange(st, newEdges) >>)

\* GraphEditor.handleAddNode (the button): the new node at the centre (x, y)
\* of the canvas; the same two callbacks, then onSelectNode.
handleAddNode(st, x, y) ==
  LET nodes == st.graph.nodes
      edges == st.graph.edges
      newNode == [id |-> NewNodeId(st.graph), x |-> x, y |-> y]
      newEdges == AddEdges(edges, nodes, newNode, 1)
  IN SetStateAll(st, << handleNodesChange(st, Append(nodes, newNode)),
                        handleEdgesChange(st, newEdges) >>)

\* GraphEditor.handleDeleteNode with selectedNodeId = selected.
handleDeleteNode(st, selected) ==
  LET nodes == st.graph.nodes
      edges == st.graph.edges
      KeepNode(node) == node.id # selected
      KeepEdge(edge) == edge.source # selected /\ edge.target # selected
      updatedNodes == SelectSeq(nodes, KeepNode)
      updatedEdges == SelectSeq(edges, KeepEdge)
  IN SetStateAll(st, << handleNodesChange(st, updatedNodes),
                        handleEdgesChange(st, updatedEdges) >>)

\* ------------------------------------------------------------- inputs
\* Coordinates Math.random() * (width - 50) + 25 can produce, taken from a
\* 3-4-5 lattice so that every distance is an integer.
Xs == {25, 28}
Ys == {25, 29}

\* Where the canvas is clicked to add a node: the lattice corner the
\* generated nodes leave free.
ClickPoints == { <<25, 29>> }

\* svgRect.width / 2, svgRect.height / 2: the centre of the canvas.
SvgCenter == <<25, 29>>

\* The corners of the lattice rectangle, in order around it.
Corners == << <<25, 25>>, <<28, 25>>, <<28, 29>>, <<25, 29>> >>

\* A placement of n nodes on distinct corners: node i on corner i + k.
PlacementAt(n, k) == [i \in 1..n |-> Corners[((i - 1 + k) % 4) + 1]]
Placements(n) == { PlacementAt(n, k) : k \in 0..3 }

GraphAt(at) ==
  generateRandomGraph(Len(at), [i \in 1..Len(at) |-> at[i][1]],
                               [i \in 1..Len(at) |-> at[i][2]])

\* Values of Math.random() in [0, 1).
RandomValues == {Num(0), Rat(1, 2), Rat(3, 4)}

\* defaultParameters, with antCount and iterations scaled to the bounds and
\* rho and q set (within the sliders' ranges) to values that keep the exact
\* fractions small.
defaultParameters ==
  [ antCount |-> MaxAnts,
    alpha |-> 1,
    beta |-> 2,
    rho |-> Rat(1, 2),
    q |-> Num(120),
    iterations |-> MaxIterations ]

\* The parameter values the sliders of ACOControls are set to.
ParameterChoices ==
  { [defaultParameters EXCEPT !.antCount = a, !.iterations = it] :
      a \in 1..MaxAnts, it \in 1..MaxIterations }

\* The Math.random() values that matter to ant's move: with fewer than two
\* candidate edges the value drawn cannot change the move.
MoveValues(state, ant) ==
  IF Len(ant.visitedNodes) # Len(state.graph.nodes)
     /\ Len(getAvailableEdges(state.graph, ant)) >= 2
  THEN RandomValues
  ELSE {Num(0)}

MoveDraws(state, ants) ==
  { m \in [1..Len(ants) -> RandomValues] :
      \A i \in 1..Len(ants) : m[i] \in MoveValues(state, ants[i]) }

StartIndices(graph, count) == [1..count -> 0..(Len(graph.nodes) - 1)]

\* The random draws one call of performIteration(state, params) consumes, in
\* the order it makes them; a draw the call does not make is fixed at 0.
NoDraws(params) == [i \in 1..params.antCount |-> 0]

SpawnDraws(state, params) ==
  IF NeedsSpawn(state)
  THEN StartIndices(state.graph, params.antCount)
  ELSE {NoDraws(params)}

RespawnDraws(state, params, ants) ==
  IF allToursCompleted(state, ants)
  THEN StartIndices(state.graph, params.antCount)
  ELSE {NoDraws(params)}

\* ------------------------------------------------------------------ state
VARIABLES
  state,               \* Index: useState<ACOState>
  parameters,          \* Index: useState<ACOParameters>
  simulationInterval,  \* Index: useState<number | null>
  intervals,           \* the live window.setInterval timers, each with the
                       \* parameters its callback closed over
  updates,             \* pheromone updates made on the current graph
  moved,               \* the ants after the move step of the latest performIteration
  event,               \* the handler that ran last, with the toast it showed
  call,                \* the latest direct call of an exported function, with its result
  drag                 \* the node held by the mouse, with the state of the render
                       \* whose props the document's mousemove listener closed over

vars == <<state, parameters, simulationInterval, intervals, updates, moved, event, call, drag>>

NoCall == [fn |-> "none"]

\* No node is held: no mousemove listener is registered on the document.
NoDrag == [node |-> NoNode]

\* simulationInterval === null
NoInterval == 0

Event(name) == [name |-> name, toast |-> "none"]
Toast(name, kind) == [name |-> name, toast |-> kind]

\* One call of performIteration(state, params) whose result becomes the
\* state: the body of setState(prevState => performIteration(prevState, ...)).
PerformIteration(params) ==
  /\ updates < MaxUpdates
  /\ \E s \in SpawnDraws(state, params) :
       \E m \in MoveDraws(state, StartingAnts(state, params, [spawn |-> s])) :
         \E ants \in {MovedAnts(state, params, [spawn |-> s, move |-> m])} :
            \E r \in RespawnDraws(state, params, ants) :
              /\ state' = IterationResult(state, params, ants, r)
              /\ moved' = ants
              /\ updates' = IF allToursCompleted(state, ants)
                            THEN updates + 1 ELSE updates

\* ----------------------------------------------------------- engine runs
\* One call of performIteration on the current state, its result becoming
\* the next call's input.
Tick ==
  /\ Len(state.graph.nodes) >= 1
  /\ state.currentIteration < MaxIterations
  /\ PerformIteration(parameters)
  /\ event' = Event("tick")
  /\ UNCHANGED <<parameters, simulationInterval, intervals, call, drag>>

\* A click on the canvas at a lattice point (GraphEditor.handleSvgClick) or
\* on the add button (GraphEditor.handleAddNode).
AddNode ==
  /\ event.name \in {"init", "edit"}
  /\ Cardinality(IdsInUse(state.graph)) < Len(state.graph.nodes) + MaxAddedNodes
  /\ \/ \E at \in ClickPoints : state' = handleSvgClick(state, at[1], at[2])
     \/ state' = handleAddNode(state, SvgCenter[1], SvgCenter[2])
  /\ event' = Event("added")
  /\ UNCHANGED <<parameters, simulationInterval, intervals, updates, moved, call, drag>>

\* Selecting a node and pressing delete: GraphEditor.handleDeleteNode.
DeleteNode ==
  /\ event.name = "init"
  /\ \E selected \in IdsInUse(state.graph) :
       /\ state' = handleDeleteNode(state, selected)
       /\ event' = [name |-> "edit", toast |-> "none", node |-> selected]
  /\ UNCHANGED <<parameters, simulationInterval, intervals, updates, moved, call, drag>>

EngineInit ==
  /\ \E n \in 1..MaxNodes :
       state = [initialState EXCEPT !.graph = GraphAt(PlacementAt(n, 0))]
  /\ parameters \in { p \in ParameterChoices : p.iterations = MaxIterations }
  /\ simulationInterval = NoInterval
  /\ intervals = {}
  /\ updates = 0
  /\ moved = <<>>
  /\ event = Event("init")
  /\ call = NoCall
  /\ drag = NoDrag

EngineNext == Tick \/ AddNode \/ DeleteNode

SpecEngine == EngineInit /\ [][EngineNext]_vars

\* ------------------------------------------------- the page: Index.tsx
\* A faulty variant of the guard: no graph is too small.
TooFewNodesNever(st) == Len(st.graph.nodes) < 0

\* The guard of handleStart and handleStep: state.graph.nodes.length < 3.
TooFewNodes(st) == Len(st.graph.nodes) < MinStartNodes

\* A faulty variant of the guard on the iteration counter: > for >=.
MaxIterationsPassed(st, params) == st.currentIteration > params.iterations

\* The guard on the iteration counter in handleStart, handleStep and the
\* timer callback: currentIteration >= parameters.iterations.
MaxIterationsReached(st, params) == st.currentIteration >= params.iterations

\* window.setInterval returns an id no live timer and no stored handle has.
NewIntervalId ==
  LET used == {t.id : t \in intervals} \cup {simulationInterval}
  IN CHOOSE k \in 1..(Cardinality(used) + 1) :
       k \notin used /\ \A m \in 1..(k - 1) : m \in used

\* A faulty variant of window.clearInterval: the timer stays live.
ClearIntervalNever(timers, id) == timers

\* clearInterval(id)
ClearInterval(timers, id) == {t \in timers : t.id # id}

\* A faulty variant of the reset of the progress: the pheromone of every
\* edge is set back to its initial value as well.
ResetProgressAndPheromone(st, running) ==
  [st EXCEPT !.graph = [@ EXCEPT !.edges =
                          [k \in 1..Len(st.graph.edges) |->
                             [st.graph.edges[k] EXCEPT
                                !.pheromone = Num(InitialPheromone)]]],
             !.ants = <<>>,
             !.bestTour = <<>>,
             !.bestTourLength = Infinity,
             !.currentIteration = 0,
             !.running = running]

\* ants, bestTour, bestTourLength and currentIteration as handleStart and
\* handleReset set them.
ResetProgress(st, running) ==
  [st EXCEPT !.ants = <<>>,
             !.bestTour = <<>>,
             !.bestTourLength = Infinity,
             !.currentIteration = 0,
             !.running = running]

\* handleGenerateRandomGraph (the mount effect and the button, which is
\* disabled while running).  Math.floor(Math.random() * 5) + 5 is at least
\* MinStartNodes; the node counts are scaled to MinStartNodes..MaxNodes.
GenerateRandomGraph ==
  /\ drag = NoDrag
  /\ ~state.running
  /\ \E n \in MinStartNodes..MaxNodes :
       state' = [initialState EXCEPT !.graph = GraphAt(PlacementAt(n, 0))]
  /\ updates' = 0
  /\ event' = Toast("generate", "info")
  /\ UNCHANGED <<parameters, simulationInterval, intervals, moved, call, drag>>

\* onParametersChange: a slider of ACOControls, disabled while running.
SetParameters ==
  /\ drag = NoDrag
  /\ ~state.running
  /\ \E p \in ParameterChoices : p # parameters /\ parameters' = p
  /\ event' = Event("parameters")
  /\ UNCHANGED <<state, simulationInterval, intervals, updates, moved, call, drag>>

\* handleStart: the Start button, shown while not running.
Start ==
  /\ drag = NoDrag
  /\ ~state.running
  /\ IF TooFewNodes(state)
     THEN /\ event' = Toast("start", "error")
          /\ UNCHANGED <<state, simulationInterval, intervals>>
     ELSE LET id == NewIntervalId
          IN /\ state' = IF MaxIterationsReached(state, parameters)
                         THEN ResetProgress(state, TRUE)
                         ELSE [state EXCEPT !.running = TRUE]
             /\ intervals' = ClearInterval(intervals, simulationInterval)
                               \cup {[id |-> id, parameters |-> parameters]}
             /\ simulationInterval' = id
             /\ event' = Event("start")
  /\ UNCHANGED <<parameters, updates, moved, call, drag>>

\* handleStop: the Stop button, shown while running.
Stop ==
  /\ drag = NoDrag
  /\ state.running
  /\ intervals' = ClearInterval(intervals, simulationInterval)
  /\ simulationInterval' = NoInterval
  /\ state' = [state EXCEPT !.running = FALSE]
  /\ event' = Event("stop")
  /\ UNCHANGED <<parameters, updates, moved, call, drag>>

\* handleStep: the Step button, disabled while running.
Step ==
  /\ drag = NoDrag
  /\ ~state.running
  /\ IF TooFewNodes(state)
     THEN /\ event' = Toast("step", "error")
          /\ UNCHANGED <<state, updates, moved>>
     ELSE IF MaxIterationsReached(state, parameters)
     THEN /\ event' = Toast("step", "info")
          /\ UNCHANGED <<state, updates, moved>>
     ELSE /\ PerformIteration(parameters)
          /\ event' = Event("step")
  /\ UNCHANGED <<parameters, simulationInterval, intervals, call, drag>>

\* handleReset: the Reset button, disabled while running.
Reset ==
  /\ drag = NoDrag
  /\ ~state.running
  /\ state' = ResetProgress(state, FALSE)
  /\ event' = Toast("reset", "info")
  /\ UNCHANGED <<parameters, simulationInterval, intervals, updates, moved, call, drag>>

\* The callback handleStart gave to window.setInterval, run for timer t with
\* the parameters it closed over, on the state of the time it runs.
TimerTick ==
  \E t \in intervals :
    /\ IF MaxIterationsReached(state, t.parameters)
       THEN /\ intervals' = ClearInterval(intervals, t.id)
            /\ simulationInterval' = NoInterval
            /\ state' = [state EXCEPT !.running = FALSE]
            /\ event' = [name |-> "timer", toast |-> "success", id |-> t.id]
            /\ UNCHANGED <<updates, moved>>
       ELSE /\ PerformIteration(t.parameters)
            /\ event' = [name |-> "timer", toast |-> "none", id |-> t.id]
            /\ UNCHANGED <<simulationInterval, intervals>>
    /\ UNCHANGED <<parameters, call, drag>>

Init ==
  /\ state = initialState
  /\ parameters = defaultParameters
  /\ simulationInterval = NoInterval
  /\ intervals = {}
  /\ updates = 0
  /\ moved = <<>>
  /\ event = Event("init")
  /\ call = NoCall
  /\ drag = NoDrag

\* The values the speed slider is moved between.
SpeedChoices == {100, InitialSpeed}

\* handleSpeedChange: the speed slider, enabled also while running. A live
\* timer is replaced by one with the new delay and the same callback.
SpeedChange ==
  /\ drag = NoDrag
  /\ \E speed \in SpeedChoices \ {state.speed} :
       state' = [state EXCEPT !.speed = speed]
  /\ IF simulationInterval # NoInterval
     THEN LET id == NewIntervalId
          IN /\ intervals' = ClearInterval(intervals, simulationInterval)
                               \cup {[id |-> id, parameters |-> parameters]}
             /\ simulationInterval' = id
     ELSE UNCHANGED <<simulationInterval, intervals>>
  /\ event' = Event("speed")
  /\ UNCHANGED <<parameters, updates, moved, call, drag>>

\* nodes.map(n => n.id === node.id ? { ...n, x, y } : n)
MoveNode(nodes, node, x, y) ==
  [k \in 1..Len(nodes) |->
     IF nodes[k].id = node THEN [nodes[k] EXCEPT !.x = x, !.y = y] ELSE nodes[k]]

\* Where the mouse is moved to while it holds a node.
DragPoints == { <<25, 29>> }

\* GraphEditor.handleNodeMouseDown on a node: the handler of the current
\* render registers its mousemove and mouseup listeners on the document.
\* The listeners keep the nodes and onNodesChange of that render, and
\* onNodesChange (Index.handleNodesChange) the state of that render.
MouseDown ==
  /\ drag = NoDrag
  /\ \E k \in 1..Len(state.graph.nodes) :
       drag' = [node |-> state.graph.nodes[k].id, state |-> state]
  /\ event' = Event("mousedown")
  /\ UNCHANGED <<state, parameters, simulationInterval, intervals, updates, moved, call>>

\* A mousemove on the document while a node is held: handleMouseMove calls
\* onNodesChange(updatedNodes), and handleNodesChange calls
\* setState({ ...state, graph: { ...state.graph, nodes } }), all with the
\* values of the render in which the mouse went down.
MouseMove ==
  /\ drag # NoDrag
  /\ \E at \in DragPoints :
       state' = handleNodesChange(drag.state,
                  MoveNode(drag.state.graph.nodes, drag.node, at[1], at[2]))
  /\ event' = [name |-> "mousemove", toast |-> "none", node |-> drag.node]
  /\ UNCHANGED <<parameters, simulationInterval, intervals, updates, moved, call, drag>>

\* The mouseup on the document: handleMouseUp removes both listeners.
MouseUp ==
  /\ drag # NoDrag
  /\ drag' = NoDrag
  /\ event' = Event("mouseup")
  /\ UNCHANGED <<state, parameters, simulationInterval, intervals, updates, moved, call>>

\* The page after its mount effect generated the graph, with the ants
\* slider set to one ant: the simulation and the editor are used together.
EditorInit ==
  /\ \E n \in MinStartNodes..MaxNodes :
       state = [initialState EXCEPT !.graph = GraphAt(PlacementAt(n, 0))]
  /\ parameters = [defaultParameters EXCEPT !.antCount = 1]
  /\ simulationInterval = NoInterval
  /\ intervals = {}
  /\ updates = 0
  /\ moved = <<>>
  /\ event = Event("init")
  /\ call = NoCall
  /\ drag = NoDrag

EditorNext ==
  \/ Start
  \/ Stop
  \/ Reset
  \/ TimerTick
  \/ SpeedChange
  \/ MouseDown
  \/ MouseMove
  \/ MouseUp

SpecEditor == EditorInit /\ [][EditorNext]_vars

Next ==
  \/ GenerateRandomGraph
  \/ SetParameters
  \/ Start
  \/ Stop
  \/ Step
  \/ Reset
  \/ TimerTick

Spec == Init /\ [][Next]_vars

\* ------------------------------------------------- the page left running
\* handleStart pressed when the generations its run still has to make fit
\* into the MaxUpdates pheromone updates followed on one graph.
StartRun ==
  /\ updates + ( IF MaxIterationsReached(state, parameters)
                 THEN parameters.iterations
                 ELSE parameters.iterations - state.currentIteration ) <= MaxUpdates
  /\ Start

\* The page after mounting (the mount effect has generated a graph), with
\* parameters that stay as they are.
RunInit ==
  /\ \E n \in MinStartNodes..MaxNodes :
       state = [initialState EXCEPT !.graph = GraphAt(PlacementAt(n, 0))]
  /\ parameters \in { p \in ParameterChoices : p.antCount = 1 }
  /\ simulationInterval = NoInterval
  /\ intervals = {}
  /\ updates = 0
  /\ moved = <<>>
  /\ event = Event("init")
  /\ call = NoCall
  /\ drag = NoDrag

\* The page without the Stop button, the sliders and the editor.
RunNext ==
  \/ StartRun
  \/ Step
  \/ Reset
  \/ TimerTick

\* window.setInterval runs the callback of a live timer again and again.
SpecRun == RunInit /\ [][RunNext]_vars /\ WF_vars(TimerTick)

\* --------------------------------------- direct calls of the functions
\* Graphs handed to the exported functions: a generated graph, as generated
\* or after the editor deleted one node.
InputGraphs ==
  UNION { UNION { {GraphAt(at)}
                  \cup { handleDeleteNode([initialState EXCEPT !.graph = GraphAt(at)],
                                          v).graph : v \in 0..(Len(at) - 1) } :
                  at \in Placements(n) } :
          n \in 0..MaxNodes }

\* The sequences over S of length lo..hi.
SeqsOf(S, lo, hi) == UNION { [1..len -> S] : len \in lo..hi }

\* The same graph with pheromone k/2 on its k-th edge.
VariedPheromone(graph) ==
  [graph EXCEPT !.edges = [k \in 1..Len(graph.edges) |->
                             [graph.edges[k] EXCEPT !.pheromone = Rat(k, 2)]]]

\* An ant that walked path on graph: tourLength is the sum moveAnts kept.
AntOn(graph, id, path) ==
  [ id |-> id,
    currentNode |-> path[Len(path)],
    visitedNodes |-> path,
    tourLength |-> TourLoop(graph, path, 1, Num(0)) ]

\* Paths of an ant on a graph of n nodes: distinct nodes, and closed tours.
AntPaths(n) ==
  LET ids == 0..(n - 1)
      Distinct(p) == \A i, j \in 1..Len(p) : i # j => p[i] # p[j]
      open == { p \in SeqsOf(ids, 1, n) : Distinct(p) }
  IN open \cup { Append(p, p[1]) : p \in { q \in open : Len(q) = n } }

CallGenerateRandomGraph ==
  /\ call = NoCall
  /\ \E n \in 0..MaxNodes :
       \E xs \in [1..n -> Xs], ys \in [1..n -> Ys] :
         call' = [ fn |-> "generateRandomGraph", nodeCount |-> n,
                   result |-> generateRandomGraph(n, xs, ys) ]
  /\ UNCHANGED <<state, parameters, simulationInterval, intervals, updates, moved, event, drag>>

CallCalculateTourLength ==
  /\ call = NoCall
  /\ \E graph \in InputGraphs :
       \E tour \in SeqsOf(0..(Len(graph.nodes) - 1), 0, Len(graph.nodes) + 1) :
         call' = [ fn |-> "calculateTourLength", graph |-> graph, tour |-> tour,
                   result |-> calculateTourLength(graph, tour) ]
  /\ UNCHANGED <<state, parameters, simulationInterval, intervals, updates, moved, event, drag>>

CallUpdatePheromones ==
  /\ call = NoCall
  /\ \E g \in InputGraphs, varied \in BOOLEAN, rho \in {Rat(1, 2), Rat(1, 10), Num(1)} :
       \E paths \in SeqsOf(AntPaths(Len(g.nodes)), 0, MaxAnts) :
         LET graph == IF varied THEN VariedPheromone(g) ELSE g
             st == [initialState EXCEPT
                      !.graph = graph,
                      !.ants = [i \in 1..Len(paths) |-> AntOn(graph, i - 1, paths[i])]]
             params == [defaultParameters EXCEPT !.rho = rho]
         IN call' = [ fn |-> "updatePheromones", state |-> st, params |-> params,
                      result |-> updatePheromones(st, params) ]
  /\ UNCHANGED <<state, parameters, simulationInterval, intervals, updates, moved, event, drag>>

\* Candidate lists of selectNextNode: the edges leaving node 0 to 0..MaxNodes
\* distinct targets, in order, with distances (0 for coinciding nodes) and
\* pheromone values (0 after underflow) of every kind.
CandidateDistances == {Num(0), Num(3), Num(4)}
CandidatePheromones == {Num(0), Rat(1, 2), Num(1)}
CandidateLists ==
  UNION { { [k \in 1..len |-> [ source |-> 0, target |-> k,
                                 distance |-> ds[k], pheromone |-> ps[k] ]] :
              ds \in [1..len -> CandidateDistances],
              ps \in [1..len -> CandidatePheromones] } :
          len \in 0..MaxNodes }

CallSelectNextNode ==
  /\ call = NoCall
  /\ \E availableEdges \in CandidateLists, alpha \in {0, 1}, beta \in {0, 2},
        u \in RandomValues :
       LET params == [defaultParameters EXCEPT !.alpha = alpha, !.beta = beta]
       IN call' = [ fn |-> "selectNextNode", availableEdges |-> availableEdges,
                    params |-> params, u |-> u,
                    result |-> selectNextNode(availableEdges, params, u) ]
  /\ UNCHANGED <<state, parameters, simulationInterval, intervals, updates, moved, event, drag>>

\* The states the editor makes of st by k clicks on the canvas.
RECURSIVE Clicked(_, _)
Clicked(st, k) ==
  IF k = 0 THEN st
  ELSE handleSvgClick(Clicked(st, k - 1), SvgCenter[1], SvgCenter[2])

\* The graphs moveAnts is called on: a generated graph, possibly with the
\* edges of one node deleted in the editor, then with up to
\* MaxAddedNodes + 1 nodes added in the editor.
MoveGraphs ==
  UNION { LET st == [initialState EXCEPT !.graph = GraphAt(PlacementAt(n, 0))]
              deleted == {st} \cup { handleDeleteNode(st, v) : v \in 0..(n - 1) }
          IN { Clicked(d, k).graph : d \in deleted, k \in 0..(MaxAddedNodes + 1) } :
          n \in 0..MaxNodes }

\* The ants that k applications of moveAnts make of an ant that
\* initializeAnts put on a node of graph.
RECURSIVE AntsAfter(_, _)
AntsAfter(graph, k) ==
  IF k = 0
  THEN { initializeAnts(graph, 1, <<v>>)[1] : v \in 0..(Len(graph.nodes) - 1) }
  ELSE { MoveAnt([initialState EXCEPT !.graph = graph], defaultParameters, ant, u) :
           ant \in AntsAfter(graph, k - 1), u \in RandomValues }

CallMoveAnts ==
  /\ call = NoCall
  /\ \E graph \in MoveGraphs, k \in 0..(MaxNodes + 2) :
       \E ants \in SeqsOf(AntsAfter(graph, k), 0, MaxAnts) :
         LET st == [initialState EXCEPT
                      !.graph = graph,
                      !.ants = [i \in 1..Len(ants) |-> [ants[i] EXCEPT !.id = i - 1]]]
         IN \E us \in MoveDraws(st, st.ants) :
              call' = [ fn |-> "moveAnts", state |-> st, params |-> defaultParameters,
                        us |-> us, result |-> moveAnts(st, defaultParameters, us) ]
  /\ UNCHANGED <<state, parameters, simulationInterval, intervals, updates, moved, event, drag>>

\* Math.floor of a non-negative number.
Floor(a) == a[1] \div a[2]

\* A faulty variant of the generator: its position is hidden state shared by
\* all runs, never set back to the seed when a run begins.
RandomAtShared(stream, pos) == stream[((pos + call.drawn) % Len(stream)) + 1]

\* Math.random() when the generator has been asked pos times since it was
\* seeded: the generator repeats the values of stream.
RandomAt(stream, pos) == stream[(pos % Len(stream)) + 1]

\* The start indices initializeAnts(graph, count) draws from position pos on.
SpawnFrom(graph, count, stream, pos) ==
  [i \in 1..count |->
     Floor(Mul(RandomAt(stream, pos + i - 1), Num(Len(graph.nodes))))]

\* The values selectNextNode draws in moveAnts(st, params) from ant i on:
\* one for every ant that has a candidate edge, in the order of the ants.
RECURSIVE MoveFrom(_, _, _, _, _)
MoveFrom(st, i, stream, pos, us) ==
  IF i > Len(st.ants) THEN [us |-> us, pos |-> pos]
  ELSE LET ant == st.ants[i]
           draws == /\ Len(ant.visitedNodes) # Len(st.graph.nodes)
                    /\ Len(getAvailableEdges(st.graph, ant)) > 0
       IN IF draws
          THEN MoveFrom(st, i + 1, stream, pos + 1,
                        Append(us, RandomAt(stream, pos)))
          ELSE MoveFrom(st, i + 1, stream, pos, Append(us, Num(0)))

\* performIteration from "if (allToursCompleted)" on, with the generator at
\* position pos after the move step that made ants.
FinishIterationFrom(st, params, stream, pos, ants) ==
  IF allToursCompleted(st, ants)
  THEN Only({ [ state |-> IterationResult(st, params, ants, respawn),
                pos |-> pos + params.antCount ] :
              respawn \in { SpawnFrom(st.graph, params.antCount, stream, pos) } })
  ELSE [ state |-> IterationResult(st, params, ants, NoDraws(params)),
         pos |-> pos ]

\* performIteration(state, params) with Math.random() served by the
\* generator from position pos on: the state returned and the position the
\* generator is left at.
PerformIterationFrom(st, params, stream, pos) ==
  Only({ Only({ Only({ FinishIterationFrom(st, params, stream, move.pos, ants) :
                       ants \in { MovedAnts(st, params,
                                            [spawn |-> spawn, move |-> move.us]) } }) :
                move \in { MoveFrom([st EXCEPT !.ants =
                                       StartingAnts(st, params, [spawn |-> spawn])],
                                    1, stream,
                                    IF NeedsSpawn(st) THEN pos + params.antCount
                                                      ELSE pos,
                                    <<>>) } }) :
         spawn \in { IF NeedsSpawn(st)
                     THEN SpawnFrom(st.graph, params.antCount, stream, pos)
                     ELSE NoDraws(params) } })

\* The value sequences of the seeded generators.
Streams == [1..MaxDraws -> RandomValues]

\* Two runs are set up on the same state and parameters, each with a
\* generator of its own seeded alike.
CallStartRuns ==
  /\ call = NoCall
  /\ \E n \in 2..MaxNodes, antCount \in 1..MaxAnts, varied \in BOOLEAN,
        stream \in Streams :
       LET graph == GraphAt(PlacementAt(n, 0))
           run == [states |-> <<>>, pos |-> 0]
       IN call' = [ fn |-> "runs",
                    state |-> [initialState EXCEPT
                                 !.graph = IF varied THEN VariedPheromone(graph)
                                                     ELSE graph],
                    params |-> [defaultParameters EXCEPT !.antCount = antCount],
                    stream |-> stream,
                    drawn |-> 0,
                    first |-> run,
                    second |-> run ]
  /\ UNCHANGED <<state, parameters, simulationInterval, intervals, updates, moved, event, drag>>

\* The next tick of run: performIteration on the state the run is in.
RunTick(run) ==
  Only({ [states |-> Append(run.states, next.state), pos |-> next.pos] :
         next \in { PerformIterationFrom(
                      IF run.states = <<>> THEN call.state
                      ELSE run.states[Len(run.states)],
                      call.params, call.stream, run.pos) } })

\* One of the two runs performs its next tick.
CallRunTick ==
  /\ call.fn = "runs"
  /\ \/ /\ Len(call.first.states) < MaxTicks
        /\ \E run \in {RunTick(call.first)} :
             call' = [call EXCEPT !.first = run,
                                  !.drawn = @ + run.pos - call.first.pos]
     \/ /\ Len(call.second.states) < MaxTicks
        /\ \E run \in {RunTick(call.second)} :
             call' = [call EXCEPT !.second = run,
                                  !.drawn = @ + run.pos - call.second.pos]
  /\ UNCHANGED <<state, parameters, simulationInterval, intervals, updates, moved, event, drag>>

\* ---- the engine on a heap: the arrays and objects of a call by reference
\* A heap is a sequence of cells and a reference is the index of a cell.
\* The cells are the arrays the engine reads and builds (edges, ants, each
\* ant's visitedNodes, bestTour) and the params and state objects. Edge and
\* ant objects are the elements of their arrays: the engine has no
\* assignment to a property of an object, only array writes.
Store(st, params) ==
  LET k == Len(st.ants)
      antObjects == [i \in 1..k |-> [st.ants[i] EXCEPT !.visitedNodes = 2 + i]]
      stateObject == [st EXCEPT !.graph = [@ EXCEPT !.edges = 1],
                                !.ants = 3 + k,
                                !.bestTour = 2]
  IN [ heap |-> << st.graph.edges, st.bestTour >>
                  \o [i \in 1..k |-> st.ants[i].visitedNodes]
                  \o << antObjects, params, stateObject >>,
       params |-> 4 + k,
       state |-> 5 + k ]

\* The ant object seen as a value: visitedNodes read through its reference.
LoadAnt(heap, antObject) == [antObject EXCEPT !.visitedNodes = heap[@]]

LoadAnts(heap, ref) == [i \in 1..Len(heap[ref]) |-> LoadAnt(heap, heap[ref][i])]

\* The state object seen as a value.
Load(heap, ref) ==
  [heap[ref] EXCEPT !.graph = [@ EXCEPT !.edges = heap[@]],
                    !.ants = LoadAnts(heap, @),
                    !.bestTour = heap[@]]

\* for (...) { ants.push({...}) } of initializeAnts, from ant i on: each
\* ant object has a new visitedNodes array and is pushed on the array ants.
RECURSIVE PushAnts(_, _, _, _, _, _)
PushAnts(heap, ants, nodes, count, idx, i) ==
  IF i > count THEN heap
  ELSE LET startNodeId == nodes[idx[i] + 1].id
           h == Append(heap, <<startNodeId>>)
           ant == [ id |-> i - 1,
                    currentNode |-> startNodeId,
                    visitedNodes |-> Len(h),
                    tourLength |-> Num(0) ]
       IN PushAnts([h EXCEPT ![ants] = Append(@, ant)], ants, nodes, count, idx, i + 1)

\* initializeAnts(graph, count): const ants = [], the pushes, return ants.
initializeAntsIn(heap, nodes, count, idx) ==
  LET h == Append(heap, <<>>)
  IN [heap |-> PushAnts(h, Len(h), nodes, count, idx, 1), ref |-> Len(h)]

\* state.ants.map(ant => ...) of moveAnts, from ant i on; out is the array
\* map builds. An ant that does not move is returned as the object it is,
\* one that moves as a new object with a new visitedNodes array.
RECURSIVE MapAnts(_, _, _, _, _, _, _)
MapAnts(heap, ants, st, params, us, out, i) ==
  IF i > Len(heap[ants])
  THEN [heap |-> Append(heap, out), ref |-> Len(heap) + 1]
  ELSE LET ant == LoadAnt(heap, heap[ants][i])
           after == MoveAnt(st, params, ant, us[i])
           h == Append(heap, after.visitedNodes)
       IN IF after = ant
          THEN MapAnts(heap, ants, st, params, us, Append(out, heap[ants][i]), i + 1)
          ELSE MapAnts(h, ants, st, params, us,
                       Append(out, [after EXCEPT !.visitedNodes = Len(h)]), i + 1)

\* moveAnts({ ...state, ants }, params): st is the state as a value, ants
\* the reference of its ants array.
moveAntsIn(heap, ants, st, params, us) ==
  MapAnts(heap, ants, st, params, us, <<>>, 1)

\* A faulty variant of the evaporation: the edges array of the graph is
\* evaporated in place and used as updatedEdges.
EvaporateInPlace(heap, edges, params) ==
  [ heap |-> [heap EXCEPT ![edges] =
                [k \in 1..Len(heap[edges]) |->
                   [heap[edges][k] EXCEPT
                      !.pheromone = Mul(@, Sub(Num(1), params.rho))]]],
    ref |-> edges ]

\* const updatedEdges = graph.edges.map(edge => ({...edge, pheromone: ...}))
\* of updatePheromones: a new array of new edge objects.
Evaporate(heap, edges, params) ==
  [ heap |-> Append(heap,
               [k \in 1..Len(heap[edges]) |->
                  [heap[edges][k] EXCEPT
                     !.pheromone = Mul(@, Sub(Num(1), params.rho))]]),
    ref |-> Len(heap) + 1 ]

\* updatePheromones({ ...state, ants }, params): the deposits are written
\* into the array updatedEdges refers to.
updatePheromonesIn(heap, edges, st, params) ==
  LET evaporated == Evaporate(heap, edges, params)
      updatedEdges == evaporated.ref
  IN [ heap |-> [evaporated.heap EXCEPT ![updatedEdges] =
                   DepositAnts(@, st, params, st.ants, 1)],
       ref |-> updatedEdges ]

\* performIteration from "if (allToursCompleted)" on (lines 354-381): heap
\* is the heap after the move step, movedAnts the reference of the moved
\* ants and ants their values, starting the state as a value at the call.
FinishIterationIn(heap, stateObject, params, rnd, starting, movedAnts, ants) ==
  IF allToursCompleted(starting, ants)
  THEN LET best == FindBest(ants, 1, [tour |-> starting.bestTour,
                                      length |-> starting.bestTourLength])
           replaced == best.length # starting.bestTourLength
       IN Only({
            Only({
              [ heap |-> Append(respawned.heap,
                           [stateObject EXCEPT
                              !.graph = [@ EXCEPT !.edges = updated.ref],
                              !.ants = respawned.ref,
                              !.bestTour = IF replaced THEN Len(updated.heap) + 1
                                                       ELSE @,
                              !.bestTourLength = best.length,
                              !.currentIteration = @ + 1]),
                state |-> Len(respawned.heap) + 1 ] :
              respawned \in
                { initializeAntsIn(
                    \* bestTour = [...ant.visitedNodes]
                    IF replaced THEN Append(updated.heap, best.tour)
                                ELSE updated.heap,
                    stateObject.graph.nodes, params.antCount, rnd.respawn) } }) :
            updated \in
              { updatePheromonesIn(heap, stateObject.graph.edges,
                                   [starting EXCEPT !.ants = ants], params) } })
  ELSE [ heap |-> Append(heap,
                    [stateObject EXCEPT
                       !.graph = [@ EXCEPT !.edges = stateObject.graph.edges],
                       !.ants = movedAnts]),
         state |-> Len(heap) + 1 ]

\* performIteration from the move step on (lines 341-381): heap is the heap
\* after the first initializeAnts, ants the reference of the ants to move, st
\* the state as a value with these ants.
MoveIterationIn(heap, stateObject, params, rnd, st, ants) ==
  Only({ FinishIterationIn(movedAnts.heap, stateObject, params, rnd, st,
                           movedAnts.ref, LoadAnts(movedAnts.heap, movedAnts.ref)) :
         movedAnts \in { moveAntsIn(heap, ants, st, params, rnd.move) } })

\* performIteration(state, params) on the heap; stateRef and paramsRef are
\* the references of the two arguments. The result is the heap after the
\* call and the reference of the state object returned.
performIterationIn(heap, stateRef, paramsRef, rnd) ==
  Only({ Only({ MoveIterationIn(
                  spawned.heap, heap[stateRef], heap[paramsRef], rnd,
                  [st EXCEPT !.ants = LoadAnts(spawned.heap, spawned.ref)],
                  spawned.ref) :
                spawned \in
                  { IF NeedsSpawn(st)
                    THEN initializeAntsIn(heap, st.graph.nodes,
                                          heap[paramsRef].antCount, rnd.spawn)
                    ELSE [heap |-> heap, ref |-> heap[stateRef].ants] } }) :
         st \in { Load(heap, stateRef) } })

\* The states performIteration is called on: a generated graph, the ants
\* that 0..n applications of moveAnts make on it, with or without a best
\* tour of an earlier generation.
IterationStates ==
  UNION { LET graph == GraphAt(PlacementAt(n, 0))
          IN { [initialState EXCEPT
                  !.graph = graph,
                  !.ants = [i \in 1..Len(ants) |-> [ants[i] EXCEPT !.id = i - 1]],
                  !.bestTour = IF best THEN [i \in 1..(n + 1) |-> i % n] ELSE <<>>,
                  !.bestTourLength = IF best THEN Num(100) ELSE Infinity,
                  !.currentIteration = IF best THEN 1 ELSE 0] :
               ants \in UNION { SeqsOf(AntsAfter(graph, k), 0, MaxAnts) : k \in 0..n },
               best \in BOOLEAN } :
          n \in 1..MaxNodes }

CallPerformIteration ==
  /\ call = NoCall
  /\ \E st \in IterationStates :
       \E s \in SpawnDraws(st, defaultParameters) :
         \E m \in MoveDraws(st, StartingAnts(st, defaultParameters, [spawn |-> s])) :
           \E ants \in {MovedAnts(st, defaultParameters, [spawn |-> s, move |-> m])} :
             \E r \in RespawnDraws(st, defaultParameters, ants) :
               \E stored \in {Store(st, defaultParameters)} :
                 LET rnd == [spawn |-> s, move |-> m, respawn |-> r]
                 IN call' = [ fn |-> "performIteration",
                              heap |-> stored.heap,
                              state |-> stored.state,
                              params |-> stored.params,
                              rnd |-> rnd,
                              result |-> performIterationIn(stored.heap, stored.state,
                                                            stored.params, rnd) ]
  /\ UNCHANGED <<state, parameters, simulationInterval, intervals, updates, moved, event, drag>>

CallInit ==
  /\ state = initialState
  /\ parameters = defaultParameters
  /\ simulationInterval = NoInterval
  /\ intervals = {}
  /\ updates = 0
  /\ moved = <<>>
  /\ event = Event("init")
  /\ call = NoCall
  /\ drag = NoDrag

CallNext ==
  \/ CallGenerateRandomGraph
  \/ CallCalculateTourLength
  \/ CallUpdatePheromones
  \/ CallSelectNextNode
  \/ CallMoveAnts
  \/ CallPerformIteration
  \/ CallStartRuns
  \/ CallRunTick

SpecCalls == CallInit /\ [][CallNext]_vars

\* ===================================================== properties: calls
\* The edges of graph from source to target (indices into graph.edges).
EdgesBetween(graph, source, target) ==
  { k \in 1..Len(graph.edges) :
      graph.edges[k].source = source /\ graph.edges[k].target = target }

\* The distance of the first edge source -> target of graph; 0 without one.
EdgeDistance(graph, source, target) ==
  LET hits == EdgesBetween(graph, source, target)
  IN IF hits = {} THEN Num(0)
     ELSE graph.edges[CHOOSE k \in hits : \A m \in hits : k <= m].distance

\* f[1] + ... + f[n]
RECURSIVE SumOf(_, _)
SumOf(f, n) == IF n <= 0 THEN Num(0) ELSE Add(SumOf(f, n - 1), f[n])

\* C1: generateRandomGraph(n) returns n nodes and, for n >= 2, exactly
\* n*(n-1) edges: exactly one edge for every ordered pair of distinct nodes,
\* none from a node to itself, each with pheromone 1.0 and the Euclidean
\* distance of its end points (hence the same distance in both directions);
\* for n = 0 and n = 1 there are no edges.
C1_CompleteGraph ==
  call.fn = "generateRandomGraph" =>
    LET n == call.nodeCount
        graph == call.result
        nodes == graph.nodes
        edges == graph.edges
    IN /\ Len(nodes) = n
       /\ \A i, j \in 1..n : i # j => nodes[i].id # nodes[j].id
       /\ n >= 2 => Len(edges) = n * (n - 1)
       /\ n < 2 => edges = <<>>
       /\ \A i, j \in 1..n :
            Cardinality(EdgesBetween(graph, nodes[i].id, nodes[j].id))
              = IF i = j THEN 0 ELSE 1
       /\ \A k \in 1..Len(edges) :
            /\ edges[k].pheromone = Num(1)
            /\ edges[k].source # edges[k].target
            /\ \E i, j \in 1..n :
                 /\ edges[k].source = nodes[i].id
                 /\ edges[k].target = nodes[j].id
                 /\ Mul(edges[k].distance, edges[k].distance)
                      = Num((nodes[i].x - nodes[j].x) * (nodes[i].x - nodes[j].x)
                            + (nodes[i].y - nodes[j].y) * (nodes[i].y - nodes[j].y))
       /\ \A k, m \in 1..Len(edges) :
            (edges[k].source = edges[m].target /\ edges[k].target = edges[m].source)
              => edges[k].distance = edges[m].distance

\* C1 happens: a graph of three nodes, not all at the same point, generated.
C1_Witness ==
  /\ call.fn = "generateRandomGraph"
  /\ call.nodeCount = 3
  /\ Len(call.result.edges) = 6
  /\ \E k \in 1..6 : call.result.edges[k].distance = Num(5)

\* C2: calculateTourLength(graph, tour) is the sum of the distances of the
\* edges tour[i] -> tour[i+1] plus, for a tour of more than one node, the
\* distance of the closing edge last -> first, an edge the graph does not
\* have counting 0; it is 0 for the empty and the one-node tour; for a tour
\* through all n >= 2 nodes of a complete graph, with or without the start
\* repeated at its end, exactly n edges are found and summed.
C2_TourLength ==
  call.fn = "calculateTourLength" =>
    LET graph == call.graph
        tour == call.tour
        len == Len(tour)
        n == Len(graph.nodes)
        steps == [i \in 1..(len - 1) |-> EdgeDistance(graph, tour[i], tour[i + 1])]
        closing == IF len > 1 THEN EdgeDistance(graph, tour[len], tour[1]) ELSE Num(0)
        found == { i \in 1..len :
                     EdgesBetween(graph, tour[i], tour[(i % len) + 1]) # {} }
        AllOnce(k) == \A v \in 0..(n - 1) :
                         Cardinality({i \in 1..k : tour[i] = v}) = 1
    IN /\ call.result = Add(SumOf(steps, len - 1), closing)
       /\ len <= 1 => call.result = Num(0)
       /\ ( /\ n >= 2
            /\ Len(graph.edges) = n * (n - 1)
            /\ \/ len = n /\ AllOnce(n)
               \/ len = n + 1 /\ AllOnce(n) /\ tour[len] = tour[1] )
          => Cardinality(found) = n

\* C2 happens: the length of an open tour through all three nodes of a
\* complete graph is the perimeter 3 + 4 + 5, closing edge included.
C2_Witness ==
  /\ call.fn = "calculateTourLength"
  /\ Len(call.graph.edges) = 6
  /\ call.tour = <<0, 1, 2>>
  /\ call.result = Num(12)

\* What ant lays on edge: q / tourLength for every consecutive pair of its
\* visitedNodes that is the edge, nothing when the ant is not completed.
DepositOf(graph, params, ant, edge) ==
  IF Len(ant.visitedNodes) > Len(graph.nodes)
  THEN LET pairs == [i \in 1..(Len(ant.visitedNodes) - 1) |->
                       IF /\ ant.visitedNodes[i] = edge.source
                          /\ ant.visitedNodes[i + 1] = edge.target
                       THEN Div(params.q, ant.tourLength)
                       ELSE Num(0)]
       IN SumOf(pairs, Len(ant.visitedNodes) - 1)
  ELSE Num(0)

\* C6: updatePheromones sets each edge's pheromone to old * (1 - rho) plus
\* the sum, over every completed ant and every consecutive pair of its
\* visitedNodes that is the edge (the closing pair included), of
\* q / tourLength; ants that are not completed lay nothing, deposits of
\* several ants add up, pairs without an edge are skipped, and the edges
\* keep their order, source, target and distance.
C6_UpdatePheromones ==
  call.fn = "updatePheromones" =>
    LET graph == call.state.graph
        ants == call.state.ants
        old == graph.edges
        new == call.result
    IN /\ Len(new) = Len(old)
       /\ \A k \in 1..Len(old) :
            LET laid == [a \in 1..Len(ants) |->
                           DepositOf(graph, call.params, ants[a], old[k])]
            IN /\ new[k].source = old[k].source
               /\ new[k].target = old[k].target
               /\ new[k].distance = old[k].distance
               /\ new[k].pheromone
                    = Add(Mul(old[k].pheromone, Sub(Num(1), call.params.rho)),
                          SumOf(laid, Len(ants)))

\* C6 happens: two completed ants walked the same round of a complete graph
\* of three nodes from different start nodes; the edge 2 -> 0, closing for
\* the first ant, holds 1 * 1/2 + 120/12 + 120/12.
C6_Witness ==
  /\ call.fn = "updatePheromones"
  /\ Len(call.state.graph.edges) = 6
  /\ Len(call.state.ants) = 2
  /\ call.state.ants[1].visitedNodes = <<0, 1, 2, 0>>
  /\ call.state.ants[2].visitedNodes = <<1, 2, 0, 1>>
  /\ call.params.rho = Rat(1, 2)
  /\ \E k \in 1..6 :
       /\ call.state.graph.edges[k].source = 2
       /\ call.state.graph.edges[k].target = 0
       /\ call.state.graph.edges[k].pheromone = Num(1)
       /\ call.result[k].pheromone = Rat(41, 2)

\* C7: applied to a state in which no ant is completed, updatePheromones
\* leaves on every edge exactly its previous pheromone times (1 - rho), so
\* the pheromone summed over all edges is the previous sum times (1 - rho).
C7_EvaporationOnly ==
  ( /\ call.fn = "updatePheromones"
    /\ \A a \in 1..Len(call.state.ants) :
         Len(call.state.ants[a].visitedNodes) <= Len(call.state.graph.nodes) )
  => LET old == call.state.graph.edges
         new == call.result
         keep == Sub(Num(1), call.params.rho)
         before == [k \in 1..Len(old) |-> old[k].pheromone]
         after == [k \in 1..Len(new) |-> new[k].pheromone]
     IN /\ Len(new) = Len(old)
        /\ \A k \in 1..Len(old) : new[k].pheromone = Mul(old[k].pheromone, keep)
        /\ SumOf(after, Len(new)) = Mul(SumOf(before, Len(old)), keep)

\* C7 happens: evaporation at rho = 1/10 of six edges with different
\* pheromone levels, under two ants that are both still on their way.
C7_Witness ==
  /\ call.fn = "updatePheromones"
  /\ call.params.rho = Rat(1, 10)
  /\ Len(call.state.graph.edges) = 6
  /\ call.state.graph.edges[3].pheromone = Rat(3, 2)
  /\ call.result[3].pheromone = Rat(27, 20)
  /\ Len(call.state.ants) = 2
  /\ \A a \in 1..2 : Len(call.state.ants[a].visitedNodes) <= 3

\* ==================================================== properties: engine
\* The step is a call of performIteration.
IsTick == event'.name = "tick"

\* ant has more visitedNodes than graph has nodes.
IsCompleted(graph, ant) == Len(ant.visitedNodes) > Len(graph.nodes)

\* ant cannot move on graph: it visited as many nodes as the graph has and
\* has no edge back to its start, or it visited fewer and no edge leads from
\* its node to a node it has not visited.
IsStalled(graph, ant) ==
  \/ /\ Len(ant.visitedNodes) = Len(graph.nodes)
     /\ EdgesBetween(graph, ant.currentNode, ant.visitedNodes[1]) = {}
  \/ /\ Len(ant.visitedNodes) < Len(graph.nodes)
     /\ \A k \in 1..Len(graph.edges) :
          graph.edges[k].source = ant.currentNode
            => \E i \in 1..Len(ant.visitedNodes) :
                 ant.visitedNodes[i] = graph.edges[k].target

\* C3: over successive calls of performIteration bestTourLength never
\* increases; it changes only in a call whose move step leaves all ants
\* completed, one of them with a tourLength strictly below the previous
\* bestTourLength, and it is then the minimum tourLength of the moved ants.
C3_BestTourLength ==
  [][ IsTick =>
        LET old == state.bestTourLength
            new == state'.bestTourLength
            ants == moved'
            improved == \E a \in 1..Len(ants) : Lt(ants[a].tourLength, old)
            allDone == \A a \in 1..Len(ants) : IsCompleted(state.graph, ants[a])
        IN /\ Geq(old, new)
           /\ new # old =>
                /\ allDone
                /\ improved
                /\ \E a \in 1..Len(ants) : ants[a].tourLength = new
                /\ \A a \in 1..Len(ants) : Geq(ants[a].tourLength, new)
           /\ (allDone /\ improved) => new # old
    ]_vars

\* C3 happens: with one ant, a first generation with a tour of length 10
\* (the edge it used still carries (1/2 + 120/10) / 2), then a second one
\* with a tour of length 6, which became the best.
C3_Witness ==
  /\ event.name = "tick"
  /\ state.currentIteration = 2
  /\ Len(moved) = 1
  /\ IsCompleted(state.graph, moved[1])
  /\ moved[1].tourLength = Num(6)
  /\ state.bestTourLength = Num(6)
  /\ \E k \in 1..Len(state.graph.edges) :
       state.graph.edges[k].pheromone = Rat(25, 4)

\* C4: when the move step of performIteration leaves an ant that is not
\* completed, the returned state differs from the input state only in its
\* ants (now the moved ants): the graph with every edge's pheromone and
\* distance, bestTour, bestTourLength, currentIteration, running and speed
\* are those of the input.
C4_OnlyAntsChange ==
  [][ ( /\ IsTick
        /\ \E a \in 1..Len(moved') : ~IsCompleted(state.graph, moved'[a]) )
      => /\ state' = [state EXCEPT !.ants = moved']
         /\ state'.graph = state.graph
         /\ state'.bestTour = state.bestTour
         /\ state'.bestTourLength = state.bestTourLength
         /\ state'.currentIteration = state.currentIteration
         /\ state'.running = state.running
         /\ state'.speed = state.speed
    ]_vars

\* C4 happens: in the second generation a call moved two ants one edge on,
\* one of them over an edge of length 5.
C4_Witness ==
  /\ event.name = "tick"
  /\ state.currentIteration = 1
  /\ Len(moved) = 2
  /\ state.ants = moved
  /\ Len(moved[1].visitedNodes) = 2
  /\ moved[2].tourLength = Num(5)
  /\ state.bestTourLength = Num(12)

\* C5: a call of performIteration whose move step leaves all ants completed
\* returns currentIteration + 1, the edges updatePheromones computes from the
\* moved ants, and params.antCount fresh ants, each at a node of the graph
\* with visitedNodes = [start], currentNode = start and tourLength = 0; and
\* no call on a graph of two or more nodes returns a population in which
\* every ant is completed.
C5_GenerationEnd ==
  [][ /\ ( /\ IsTick
           /\ \A a \in 1..Len(moved') : IsCompleted(state.graph, moved'[a]) )
         => /\ state'.currentIteration = state.currentIteration + 1
            /\ state'.graph.nodes = state.graph.nodes
            /\ state'.graph.edges
                 = updatePheromones([state EXCEPT !.ants = moved'], parameters)
            /\ Len(state'.ants) = parameters.antCount
            /\ \A a \in 1..Len(state'.ants) :
                 /\ \E n \in 1..Len(state.graph.nodes) :
                      state'.ants[a].visitedNodes = <<state.graph.nodes[n].id>>
                 /\ state'.ants[a].currentNode = state'.ants[a].visitedNodes[1]
                 /\ state'.ants[a].tourLength = Num(0)
      /\ (IsTick /\ Len(state'.graph.nodes) >= 2)
         => \E a \in 1..Len(state'.ants) :
              ~IsCompleted(state'.graph, state'.ants[a])
    ]_vars

\* C5 happens: two ants closed their tours of a three-node graph in the same
\* call, which ended the first generation and returned two fresh ants.
C5_Witness ==
  /\ event.name = "tick"
  /\ Len(state.graph.nodes) = 3
  /\ Len(moved) = 2
  /\ \A a \in 1..2 : IsCompleted(state.graph, moved[a])
  /\ state.currentIteration = 1
  /\ Len(state.ants) = 2
  /\ \A a \in 1..2 : Len(state.ants[a].visitedNodes) = 1
  /\ state.bestTourLength = Num(12)

\* C8: a stalled ant does not block generation detection: a call of
\* performIteration after whose move step every ant that is not stalled is
\* completed (and one is) makes the pheromone update and the best-tour check
\* and increments the iteration counter.
C8_StalledAntDoesNotBlock ==
  [][ ( /\ IsTick
        /\ \E a \in 1..Len(moved') : IsStalled(state.graph, moved'[a])
        /\ \E a \in 1..Len(moved') : IsCompleted(state.graph, moved'[a])
        /\ \A a \in 1..Len(moved') :
             IsStalled(state.graph, moved'[a]) \/ IsCompleted(state.graph, moved'[a]) )
      => /\ state'.currentIteration = state.currentIteration + 1
         /\ state'.graph.edges
              = updatePheromones([state EXCEPT !.ants = moved'], parameters)
    ]_vars

\* ====================================================== properties: page
\* C9: Start or Step requested while the graph has fewer than 3 nodes is
\* refused with an error toast before any tick runs: performIteration is not
\* called, no timer is created, and graph, ants, bestTour, bestTourLength,
\* currentIteration and running (the whole state) are unchanged.
C9_RefusedBelowThreeNodes ==
  [][ ( /\ event'.name \in {"start", "step"}
        /\ Len(state.graph.nodes) < 3 )
      => /\ state' = state
         /\ moved' = moved
         /\ updates' = updates
         /\ intervals' = intervals
         /\ simulationInterval' = simulationInterval
         /\ event'.toast = "error"
    ]_vars

\* C9 happens: Start was requested on the empty graph the page is
\* constructed with.
C9_Witness ==
  /\ event.name = "start"
  /\ Len(state.graph.nodes) < 3
  /\ ~state.running
  /\ intervals = {}

\* C10: a tick requested while currentIteration >= parameters.iterations
\* makes no progress: Step leaves the whole state unchanged; the timer
\* callback (with the parameters it closed over) leaves ants, pheromone,
\* bestTour, bestTourLength and currentIteration unchanged, sets running to
\* false and cancels its timer, so that it schedules no further tick.
C10_NoTickAtMaxIterations ==
  [][ /\ ( /\ event'.name = "step"
           /\ state.currentIteration >= parameters.iterations )
         => /\ state' = state
            /\ moved' = moved
            /\ updates' = updates
            /\ intervals' = intervals
            /\ simulationInterval' = simulationInterval
      /\ \A t \in intervals :
           ( /\ event'.name = "timer"
             /\ event'.id = t.id
             /\ state.currentIteration >= t.parameters.iterations )
           => /\ state' = [state EXCEPT !.running = FALSE]
              /\ moved' = moved
              /\ updates' = updates
              /\ t \notin intervals'
              /\ \A u \in intervals' : u.id # t.id
              /\ simulationInterval' = NoInterval
    ]_vars

\* C10 happens: the timer fired after the last of two iterations and
\* stopped the simulation.
C10_Witness ==
  /\ event.name = "timer"
  /\ state.currentIteration = 2
  /\ parameters.iterations = 2
  /\ ~state.running
  /\ intervals = {}
  /\ simulationInterval = NoInterval
  /\ state.bestTourLength = Num(12)

\* ==================================================== properties: editor
\* The ids of the nodes of graph.
NodeIds(graph) == { graph.nodes[k].id : k \in 1..Len(graph.nodes) }

\* C11: after an add-node edit on a graph with node set N the graph holds
\* a new node v and, for every node u of N, exactly one new edge v -> u and
\* one new edge u -> v, both with pheromone 1.0 and the same distance; all
\* nodes and edges it had before are kept.
C11_AddNodeAddsNodeAndEdges ==
  [][ event'.name = "added" =>
        LET old == state.graph
            new == state'.graph
            added == { k \in 1..Len(new.edges) : k > Len(old.edges) }
        IN /\ Len(new.nodes) = Len(old.nodes) + 1
           /\ \A k \in 1..Len(old.nodes) : new.nodes[k] = old.nodes[k]
           /\ \A k \in 1..Len(old.edges) : new.edges[k] = old.edges[k]
           /\ LET v == new.nodes[Len(new.nodes)].id
              IN /\ v \notin NodeIds(old)
                 /\ Len(new.edges) = Len(old.edges) + 2 * Len(old.nodes)
                 /\ \A u \in NodeIds(old) :
                      \E k, m \in added :
                        /\ new.edges[k].source = v /\ new.edges[k].target = u
                        /\ new.edges[m].source = u /\ new.edges[m].target = v
                        /\ new.edges[k].pheromone = Num(1)
                        /\ new.edges[m].pheromone = Num(1)
                        /\ new.edges[k].distance = new.edges[m].distance
    ]_vars

\* C12: after the removal of node v from a complete graph of n nodes the
\* graph no longer has v among its nodes, the 2*(n-1) edges from or to v
\* are gone, and there is exactly one edge for every ordered pair of
\* distinct remaining nodes.
C12_RemoveNodeRemovesNodeAndEdges ==
  [][ ( /\ event'.name = "edit"
        /\ Len(state.graph.edges)
             = Len(state.graph.nodes) * (Len(state.graph.nodes) - 1) )
      => LET v == event'.node
             old == state.graph
             new == state'.graph
         IN /\ v \notin NodeIds(new)
            /\ NodeIds(new) = NodeIds(old) \ {v}
            /\ Len(new.edges) = Len(old.edges) - 2 * (Len(old.nodes) - 1)
            /\ \A k \in 1..Len(new.edges) :
                 new.edges[k].source # v /\ new.edges[k].target # v
            /\ \A a, b \in NodeIds(new) :
                 Cardinality(EdgesBetween(new, a, b)) = IF a = b THEN 0 ELSE 1
    ]_vars

\* C13: in every reachable state every edge's source and target are ids of
\* nodes in the graph's node set.
C13_EdgesResolve ==
  \A k \in 1..Len(state.graph.edges) :
    /\ state.graph.edges[k].source \in NodeIds(state.graph)
    /\ state.graph.edges[k].target \in NodeIds(state.graph)

\* ================================================= properties: selection
\* The desirabilities selectNextNode computes for its candidates, the value
\* it draws, and whether its walk passes every candidate without selecting.
Desirabilities(availableEdges, params) ==
  [k \in 1..Len(availableEdges) |-> Probability(availableEdges[k], params)]

DrawnValue(availableEdges, params, u) ==
  LET p == Desirabilities(availableEdges, params)
  IN Mul(u, SumSeq(p, Len(p)))

WalkExhausted(availableEdges, params, u) ==
  LET p == Desirabilities(availableEdges, params)
  IN /\ Len(availableEdges) > 0
     /\ \A k \in 1..Len(p) :
          ~Geq(SumSeq(p, k), DrawnValue(availableEdges, params, u))

\* C17: when the roulette-wheel walk passes all candidates without the
\* cumulative desirability reaching the drawn value, selectNextNode returns
\* the target of the last candidate of the list.
C17_FallbackIsLast ==
  ( /\ call.fn = "selectNextNode"
    /\ WalkExhausted(call.availableEdges, call.params, call.u) )
  => call.result = call.availableEdges[Len(call.availableEdges)].target

\* C18: with exactly one candidate edge selectNextNode returns that edge's
\* target, for every random draw, every pheromone value of the edge and
\* every alpha (0 included); moveAnts then moves the ant along that edge.
C18_SingleCandidate ==
  /\ ( call.fn = "selectNextNode" /\ Len(call.availableEdges) = 1 )
       => call.result = call.availableEdges[1].target
  /\ call.fn = "moveAnts" =>
       \A i \in 1..Len(call.state.ants) :
         LET ant == call.state.ants[i]
             availableEdges == getAvailableEdges(call.state.graph, ant)
         IN ( /\ Len(ant.visitedNodes) # Len(call.state.graph.nodes)
              /\ Len(availableEdges) = 1 )
            => /\ call.result[i].currentNode = availableEdges[1].target
               /\ call.result[i].visitedNodes
                    = Append(ant.visitedNodes, availableEdges[1].target)

\* The only candidate has pheromone 0 and alpha is 0; the walk is exhausted
\* (the drawn value is NaN) and the candidate is returned all the same.
C18_Witness ==
  /\ call.fn = "selectNextNode"
  /\ Len(call.availableEdges) = 1
  /\ call.params.alpha = 0
  /\ call.availableEdges[1].pheromone = Num(0)
  /\ WalkExhausted(call.availableEdges, call.params, call.u)
  /\ call.result = call.availableEdges[1].target

\* ====================================================== properties: moves
\* ant is left as it is by moveAnts on graph for one of the reasons the
\* move step has: no edge from its node to a node it has not visited, or as
\* many visited nodes as the graph has nodes and no edge back to the start,
\* or a tour that is already completed.
HasReasonToStay(graph, ant) ==
  \/ Len(getAvailableEdges(graph, ant)) = 0
  \/ /\ Len(ant.visitedNodes) = Len(graph.nodes)
     /\ EdgesBetween(graph, ant.currentNode, ant.visitedNodes[1]) = {}
  \/ IsCompleted(graph, ant)

\* after is ant moved along one edge of graph to node id.
HoppedTo(graph, ant, after, id) ==
  /\ after.visitedNodes = Append(ant.visitedNodes, id)
  /\ after.currentNode = id
  /\ after.id = ant.id
  /\ \E k \in 1..Len(graph.edges) :
       /\ graph.edges[k].source = ant.currentNode
       /\ graph.edges[k].target = id
       /\ after.tourLength = Add(ant.tourLength, graph.edges[k].distance)
  /\ IF Len(ant.visitedNodes) = Len(graph.nodes)
     THEN id = ant.visitedNodes[1]
     ELSE \A j \in 1..Len(ant.visitedNodes) : ant.visitedNodes[j] # id

\* C20: one application of moveAnts leaves each ant either unchanged (no
\* unvisited target reachable from its node, or all nodes visited and no
\* closing edge, or already completed) or with exactly one more node id in
\* visitedNodes, which is its currentNode and whose edge's distance is added
\* to tourLength: the start node when visitedNodes had as many entries as the
\* graph has nodes, otherwise the target of an edge leaving the ant's node
\* that was not in visitedNodes. tourLength never decreases, and the result
\* for an ant is the one it gets when moved alone.
C20_MoveAnts ==
  call.fn = "moveAnts" =>
    LET graph == call.state.graph
        ants == call.state.ants
    IN /\ Len(call.result) = Len(ants)
       /\ \A i \in 1..Len(ants) :
            LET ant == ants[i]
                after == call.result[i]
                alone == [call.state EXCEPT !.ants = <<ant>>]
            IN /\ \/ after = ant /\ HasReasonToStay(graph, ant)
                  \/ \E id \in IdsInUse(graph) : HoppedTo(graph, ant, after, id)
               /\ Geq(after.tourLength, ant.tourLength)
               /\ after = moveAnts(alone, call.params, <<call.us[i]>>)[1]
               /\ ( IsCompleted(graph, ant) /\ IdsInUse(graph) = NodeIds(graph) )
                    => after = ant

\* Two ants moved in one application: one closes its tour, the other has no
\* edge back to its start and stays as it is.
C20_Witness ==
  /\ call.fn = "moveAnts"
  /\ Len(call.state.ants) = 2
  /\ \E i, j \in 1..2 :
       /\ Len(call.state.ants[i].visitedNodes) = Len(call.state.graph.nodes)
       /\ Len(call.result[i].visitedNodes) = Len(call.state.graph.nodes) + 1
       /\ Len(call.state.ants[j].visitedNodes) = Len(call.state.graph.nodes)
       /\ call.result[j] = call.state.ants[j]

C16_NoMutation ==
  call.fn = "performIteration" =>
    /\ \A ref \in 1..Len(call.heap) : call.result.heap[ref] = call.heap[ref]
    /\ call.result.state > Len(call.heap)
    /\ Load(call.result.heap, call.result.state)
         = performIteration(Load(call.heap, call.state),
                            call.heap[call.params], call.rnd)

\* A call that completed a generation with two ants, deposited pheromone and
\* replaced the best tour.
C16_Witness ==
  /\ call.fn = "performIteration"
  /\ Len(Load(call.heap, call.state).ants) = 2
  /\ call.result.heap[call.result.state].currentIteration
       = call.heap[call.state].currentIteration + 1
  /\ call.result.heap[call.result.state].bestTour # call.heap[call.state].bestTour
  /\ Load(call.result.heap, call.result.state).graph.edges
       # Load(call.heap, call.state).graph.edges

\* ====================================================== properties: drag
\* A tick (of the timer or of Step) whose moved ants are all completed: the
\* tick that runs the pheromone update.
IsUpdatingTick ==
  /\ event'.name \in {"timer", "step"}
  /\ moved' # moved \/ state' # state
  /\ allToursCompleted(state, moved')
  /\ state'.currentIteration = state.currentIteration + 1

\* C14: the pheromone of an edge that stays in the graph changes only in a
\* tick in which all ants completed; no other operation (ant move or
\* respawn, start, stop, a refused step, reset, the drag of a node) alters
\* it, however the timer's ticks interleave with these events.
C14_PheromoneOnlyByUpdate ==
  [][ ( \E k \in 1..Len(state.graph.edges) :
          /\ k <= Len(state'.graph.edges)
          /\ state'.graph.edges[k].source = state.graph.edges[k].source
          /\ state'.graph.edges[k].target = state.graph.edges[k].target
          /\ state'.graph.edges[k].pheromone # state.graph.edges[k].pheromone )
      => IsUpdatingTick
    ]_vars

\* C15: the drag of a node changes only that node's x and y: the ids of
\* the nodes, the position of every other node and every edge (source,
\* target, distance, pheromone) are as before; no distance is recomputed.
C15_DragMovesOneNode ==
  [][ event'.name = "mousemove" =>
        /\ Len(state'.graph.nodes) = Len(state.graph.nodes)
        /\ \A k \in 1..Len(state.graph.nodes) :
             /\ state'.graph.nodes[k].id = state.graph.nodes[k].id
             /\ state.graph.nodes[k].id # event'.node
                  => state'.graph.nodes[k] = state.graph.nodes[k]
        /\ state'.graph.edges = state.graph.edges
    ]_vars

\* ======================================== properties: the transition rule
\* The edges of graph from position k on that leave the ant's node for a
\* node the ant has not visited, in the order of graph.edges.
RECURSIVE EdgesLeaving(_, _, _)
EdgesLeaving(graph, ant, k) ==
  IF k > Len(graph.edges) THEN <<>>
  ELSE LET edge == graph.edges[k]
           visited == { ant.visitedNodes[j] : j \in 1..Len(ant.visitedNodes) }
       IN ( IF edge.source = ant.currentNode /\ edge.target \notin visited
            THEN <<edge>> ELSE <<>> )
          \o EdgesLeaving(graph, ant, k + 1)

\* The weight of a candidate edge, and the weight of the first k candidates.
Weight(edge, params) ==
  Mul(Pow(edge.pheromone, params.alpha),
      Pow(Div(Num(1), edge.distance), params.beta))

RECURSIVE Cumulative(_, _, _)
Cumulative(candidates, params, k) ==
  IF k = 0 THEN Num(0)
  ELSE Add(Cumulative(candidates, params, k - 1), Weight(candidates[k], params))

\* The value u * total drawn for candidates lies in [0, total).
DrawInRange(candidates, params, u) ==
  LET total == Cumulative(candidates, params, Len(candidates))
      r == Mul(u, total)
  IN Geq(r, Num(0)) /\ Lt(r, total)

\* id is the target of the first candidate whose cumulative weight is at
\* least the drawn value.
FirstReaching(candidates, params, u, id) ==
  LET r == Mul(u, Cumulative(candidates, params, Len(candidates)))
  IN \E k \in 1..Len(candidates) :
       /\ Geq(Cumulative(candidates, params, k), r)
       /\ \A j \in 1..(k - 1) : ~Geq(Cumulative(candidates, params, j), r)
       /\ id = candidates[k].target

\* C21: the transition rule considers exactly the edges that leave the
\* ant's node for a node not in visitedNodes, in the order of the graph's
\* edge list; it weights each by pheromone^alpha * (1/distance)^beta and,
\* for a draw in [0, total), returns the target of the first candidate in
\* that order whose cumulative weight is at least the draw. With no
\* candidate it signals no move and the ant is left unchanged.
C21_TransitionRule ==
  /\ call.fn = "selectNextNode" =>
       /\ Len(call.availableEdges) = 0 => call.result = NoNode
       /\ DrawInRange(call.availableEdges, call.params, call.u)
            => FirstReaching(call.availableEdges, call.params, call.u, call.result)
  /\ call.fn = "moveAnts" =>
       \A i \in 1..Len(call.state.ants) :
         LET graph == call.state.graph
             ant == call.state.ants[i]
             candidates == EdgesLeaving(graph, ant, 1)
         IN /\ getAvailableEdges(graph, ant) = candidates
            /\ Len(ant.visitedNodes) # Len(graph.nodes) =>
                 /\ Len(candidates) = 0 => call.result[i] = ant
                 /\ DrawInRange(candidates, call.params, call.us[i])
                      => /\ FirstReaching(candidates, call.params, call.us[i],
                                          call.result[i].currentNode)
                         /\ call.result[i].visitedNodes
                              = Append(ant.visitedNodes, call.result[i].currentNode)

\* A draw in range passes the first of several candidates of different
\* distances and the second one is selected.
C21_Witness ==
  /\ call.fn = "selectNextNode"
  /\ Len(call.availableEdges) = MaxNodes
  /\ call.availableEdges[1].distance # call.availableEdges[2].distance
  /\ call.params.beta > 0
  /\ DrawInRange(call.availableEdges, call.params, call.u)
  /\ call.result = call.availableEdges[2].target

\* An ant with two candidates in the graph's edge order is moved to the
\* second of them by a draw in range.
C21_MoveWitness ==
  /\ call.fn = "moveAnts"
  /\ \E i \in 1..Len(call.state.ants) :
       LET candidates == EdgesLeaving(call.state.graph, call.state.ants[i], 1)
       IN /\ Len(candidates) = 2
          /\ DrawInRange(candidates, call.params, call.us[i])
          /\ call.result[i].currentNode = candidates[2].target

\* ================================================= properties: respawning
\* seq starts with the entries of prefix.
StartsWith(seq, prefix) ==
  /\ Len(seq) >= Len(prefix)
  /\ \A j \in 1..Len(prefix) : seq[j] = prefix[j]

\* The population is empty or its ant 0 has completed its tour.
PopulationIsSpent == state.ants = <<>> \/ IsCompleted(state.graph, state.ants[1])

\* C22: a tick starts from a fresh population of parameters.antCount ants
\* exactly when the population is empty or ants[0] is completed; the other
\* ants' progress is then dropped, and unless the fresh ants themselves
\* complete in this tick there is no pheromone update, no change of the best
\* tour and no iteration increment. In every other case the ants already
\* there are advanced, completed ones among them included.
C22_RespawnOnFirstAnt ==
  [][ IsTick =>
        IF PopulationIsSpent
        THEN /\ Len(moved') = parameters.antCount
             /\ \A i \in 1..Len(moved') :
                  /\ moved'[i].id = i - 1
                  /\ Len(moved'[i].visitedNodes) \in {1, 2}
                  /\ moved'[i].visitedNodes[1] \in NodeIds(state.graph)
                  /\ Len(moved'[i].visitedNodes) = 1 => moved'[i].tourLength = Num(0)
             /\ (\E i \in 1..Len(moved') : ~IsCompleted(state.graph, moved'[i]))
                  => /\ state'.ants = moved'
                     /\ state'.graph = state.graph
                     /\ state'.bestTour = state.bestTour
                     /\ state'.bestTourLength = state.bestTourLength
                     /\ state'.currentIteration = state.currentIteration
        ELSE /\ Len(moved') = Len(state.ants)
             /\ \A i \in 1..Len(moved') :
                  /\ moved'[i].id = state.ants[i].id
                  /\ StartsWith(moved'[i].visitedNodes, state.ants[i].visitedNodes)
                  /\ Len(moved'[i].visitedNodes) <= Len(state.ants[i].visitedNodes) + 1
    ]_vars

\* A tick is about to run on a population whose ant 0 is completed while
\* another ant is on its way: that ant's progress is dropped.
C22_Witness ==
  /\ event.name = "tick"
  /\ state.currentIteration < MaxIterations
  /\ updates < MaxUpdates
  /\ Len(state.ants) = 2
  /\ IsCompleted(state.graph, state.ants[1])
  /\ ~IsCompleted(state.graph, state.ants[2])
  /\ Len(state.ants[2].visitedNodes) >= 2

\* A tick is about to run on a population whose ant 0 is on its way while
\* another ant is completed: the ants are advanced, not replaced.
C22_AdvanceWitness ==
  /\ event.name = "tick"
  /\ state.currentIteration < MaxIterations
  /\ updates < MaxUpdates
  /\ Len(state.ants) = 2
  /\ ~IsCompleted(state.graph, state.ants[1])
  /\ IsCompleted(state.graph, state.ants[2])

\* ================================================== properties: lock-step
\* The state a run is in before its tick t.
StateBefore(run, t) == IF t = 1 THEN call.state ELSE run.states[t - 1]

\* C23: on an unedited complete graph of n >= 2 nodes with antCount >= 1,
\* from a state without ants and with currentIteration 0, the ants advance in
\* lock-step: after t ticks currentIteration is floor(t / n), every ant has
\* (t mod n) + 1 entries in visitedNodes, and the pheromone is updated on
\* exactly the ticks that are multiples of n; no ant stalls.
C23_LockStep ==
  call.fn = "runs" =>
    \A run \in {call.first, call.second} :
      \A t \in 1..Len(run.states) :
        LET n == Len(call.state.graph.nodes)
            st == run.states[t]
            before == StateBefore(run, t)
        IN /\ st.currentIteration = t \div n
           /\ Len(st.ants) = call.params.antCount
           /\ \A i \in 1..Len(st.ants) :
                /\ Len(st.ants[i].visitedNodes) = (t % n) + 1
                /\ t % n \notin {0, 1} =>
                     StartsWith(st.ants[i].visitedNodes, before.ants[i].visitedNodes)
           /\ st.graph.edges # before.graph.edges <=> t % n = 0
           /\ st.graph.nodes = call.state.graph.nodes

\* A run of two ants on three nodes has made MaxTicks ticks: one generation
\* is completed and the ants of the next have made their first move.
C23_Witness ==
  /\ call.fn = "runs"
  /\ Len(call.state.graph.nodes) = 3
  /\ call.params.antCount = 2
  /\ Len(call.first.states) = MaxTicks
  /\ call.first.states[MaxTicks].currentIteration = MaxTicks \div 3
  /\ call.first.states[3].graph.edges # call.state.graph.edges
  /\ \A i \in 1..2 :
       Len(call.first.states[MaxTicks].ants[i].visitedNodes) = (MaxTicks % 3) + 1

\* ============================================ properties: well-formed ants
\* graph has the nodes and the edges (sources, targets, distances) of the
\* graph generated for its nodes: the editor has not changed it.
IsUnedited(graph) ==
  LET generated == GraphAt([k \in 1..Len(graph.nodes) |->
                              <<graph.nodes[k].x, graph.nodes[k].y>>])
  IN /\ graph.nodes = generated.nodes
     /\ Len(graph.edges) = Len(generated.edges)
     /\ \A k \in 1..Len(graph.edges) :
          [graph.edges[k] EXCEPT !.pheromone = Num(InitialPheromone)]
            = generated.edges[k]

\* The sum of the distances of the edges between consecutive entries of tour.
PathLength(graph, tour) ==
  SumOf([k \in 1..(Len(tour) - 1) |-> EdgeDistance(graph, tour[k], tour[k + 1])],
        Len(tour) - 1)

WellFormedAnt(graph, ant) ==
  LET n == Len(graph.nodes)
      visited == ant.visitedNodes
      len == Len(visited)
      m == IF len < n THEN len ELSE n
  IN /\ len >= 1
     /\ ant.currentNode = visited[len]
     /\ \A j \in 1..m : visited[j] \in NodeIds(graph)
     /\ \A j, k \in 1..m : j # k => visited[j] # visited[k]
     /\ len <= n + 1
     /\ len = n + 1 => visited[n + 1] = visited[1]
     /\ ant.tourLength = PathLength(graph, visited)

\* C24: in every state ticks reach on an unedited graph of n nodes, every
\* ant has a non-empty visitedNodes whose last entry is currentNode, whose
\* first min(length, n) entries are pairwise distinct node ids of the graph,
\* whose length is at most n + 1 and whose entry n + 1, if present, is its
\* first entry; tourLength is the sum of the distances of the edges between
\* consecutive entries.
C24_WellFormedAnts ==
  IsUnedited(state.graph) =>
    /\ \A i \in 1..Len(state.ants) : WellFormedAnt(state.graph, state.ants[i])
    /\ \A i \in 1..Len(moved) : WellFormedAnt(state.graph, moved[i])

\* The move step of a tick has closed the tours of two ants on an unedited
\* graph of three nodes, each of length 12 (3 + 4 + 5).
C24_Witness ==
  /\ event.name = "tick"
  /\ IsUnedited(state.graph)
  /\ Len(state.graph.nodes) = 3
  /\ Len(moved) = 2
  /\ \A i \in 1..2 : /\ Len(moved[i].visitedNodes) = 4
                     /\ moved[i].visitedNodes[4] = moved[i].visitedNodes[1]
                     /\ moved[i].tourLength = Num(12)

\* ================================================ properties: the best tour
\* tour is a closed tour of graph: one more entry than the graph has nodes,
\* the first entry again at the end, every node exactly once before it.
IsClosedTour(graph, tour) ==
  LET n == Len(graph.nodes)
  IN /\ Len(tour) = n + 1
     /\ tour[n + 1] = tour[1]
     /\ { tour[k] : k \in 1..n } = NodeIds(graph)
     /\ \A j, k \in 1..n : j # k => tour[j] # tour[k]

\* C25: in the states ticks reach from the initial state on an unedited
\* complete graph of n >= 2 nodes with antCount >= 1: while currentIteration
\* is 0 bestTour is empty and bestTourLength is +Infinity; from
\* currentIteration 1 on bestTourLength is finite, bestTour is a closed tour
\* of n + 1 ids that visits every node exactly once, and bestTourLength is
\* calculateTourLength(graph, bestTour).
C25_BestTour ==
  ( IsUnedited(state.graph) /\ Len(state.graph.nodes) >= 2 ) =>
    IF state.currentIteration = 0
    THEN state.bestTour = <<>> /\ state.bestTourLength = Infinity
    ELSE /\ state.currentIteration >= 1
         /\ ~IsInfinite(state.bestTourLength) /\ ~IsNaN(state.bestTourLength)
         /\ IsClosedTour(state.graph, state.bestTour)
         /\ state.bestTourLength = calculateTourLength(state.graph, state.bestTour)
         /\ state.bestTourLength = PathLength(state.graph, state.bestTour)

\* Two generations are completed on an unedited graph of three nodes and the
\* best tour is one of its round trips of length 12.
C25_Witness ==
  /\ event.name = "tick"
  /\ IsUnedited(state.graph)
  /\ Len(state.graph.nodes) = 3
  /\ state.currentIteration = 2
  /\ Len(state.bestTour) = 4
  /\ state.bestTourLength = Num(12)

\* The first generation on an unedited graph of two nodes is on its way:
\* nothing is recorded as the best tour yet.
C25_EmptyWitness ==
  /\ event.name = "tick"
  /\ IsUnedited(state.graph)
  /\ Len(state.graph.nodes) = 2
  /\ state.currentIteration = 0
  /\ state.bestTour = <<>>
  /\ \E i \in 1..Len(state.ants) : Len(state.ants[i].visitedNodes) = 2

\* ========================================= properties: pheromone stays sane
\* after has the edges of before, in order, with the same sources, targets
\* and distances.
SameEdgesButPheromone(before, after) ==
  /\ Len(after) = Len(before)
  /\ \A k \in 1..Len(before) :
       [after[k] EXCEPT !.pheromone = before[k].pheromone] = before[k]

C29_RunWitness ==
  /\ call.fn = "runs"
  /\ Len(call.state.graph.nodes) = 2
  /\ Len(call.first.states) = MaxTicks
  /\ call.first.states[MaxTicks].currentIteration = 2
  /\ \A k \in 1..Len(call.state.graph.edges) :
       /\ Lt(Num(0), call.first.states[MaxTicks].graph.edges[k].pheromone)
       /\ call.first.states[MaxTicks].graph.edges[k].pheromone
            # call.state.graph.edges[k].pheromone

\* ===================================================== properties: reset
\* The step is a Reset, or a Start on a state whose iteration counter has
\* reached the configured number of iterations.
IsReset == event'.name = "reset"

IsRestart ==
  /\ event'.name = "start"
  /\ event'.toast = "none"
  /\ state.currentIteration >= parameters.iterations

\* C30: Reset, and Start after the iteration count was reached, empty ants
\* and bestTour, set bestTourLength to +Infinity and currentIteration to 0,
\* and leave the graph as it is: nodes, edges and the pheromone every edge
\* has accumulated. A restarted run begins from that pheromone, not from 1.
C30_ResetKeepsGraph ==
  [][ (IsReset \/ IsRestart) =>
        /\ state'.ants = <<>>
        /\ state'.bestTour = <<>>
        /\ state'.bestTourLength = Infinity
        /\ state'.currentIteration = 0
        /\ state'.graph = state.graph
        /\ state'.running = IsRestart
    ]_vars

\* Reset has run after a completed generation: the progress is cleared and
\* the edges carry the pheromone of that generation.
C30_Witness ==
  /\ event.name = "reset"
  /\ updates >= 1
  /\ state.ants = <<>>
  /\ state.currentIteration = 0
  /\ state.bestTourLength = Infinity
  /\ \E k \in 1..Len(state.graph.edges) :
       state.graph.edges[k].pheromone # Num(InitialPheromone)

\* A run started again after the iteration count of one was reached has
\* completed its own generation on the pheromone the first run left: the
\* graph has had two pheromone updates.
C30_RestartWitness ==
  /\ event.name = "timer"
  /\ parameters.iterations = 1
  /\ updates = 2
  /\ state.currentIteration = 1
  /\ state.running

\* ================================================= properties: termination
\* The run has ended at the configured number of iterations: no timer is
\* live and the page is not running.
RunEnded ==
  /\ state.currentIteration = parameters.iterations
  /\ intervals = {}
  /\ simulationInterval = NoInterval
  /\ ~state.running

\* The step called performIteration, from the timer or from Step.
CallsPerformIteration ==
  event'.name \in {"timer", "step"} /\ event'.toast = "none"

\* C26: after Start on an unedited complete graph of at least three nodes,
\* with the parameters fixed and Stop not pressed, the timer firing again
\* and again brings the run to currentIteration = parameters.iterations,
\* where the timer is cancelled and running becomes false. On the way
\* currentIteration never exceeds parameters.iterations: neither the timer
\* nor Step calls performIteration on a state that has reached it.
C26_RunTerminates ==
  /\ state.running ~> RunEnded
  /\ [](state.currentIteration <= parameters.iterations)
  /\ [][CallsPerformIteration => state.currentIteration < parameters.iterations]_vars

\* A run of MaxIterations generations has ended: the timer found the count
\* reached, cancelled itself and cleared running.
C26_Witness ==
  /\ event.name = "timer"
  /\ event.toast = "success"
  /\ parameters.iterations = MaxIterations
  /\ RunEnded

\* ====================================================== properties: timer
\* C27: under every interleaving of timer ticks with start, stop, reset,
\* speed changes and node drags, at most one timer is live at any time, and
\* state.running is true only while a timer is live.
C27_OneTimerWhileRunning ==
  /\ Cardinality(intervals) <= 1
  /\ state.running => intervals # {}

\* =================================================== properties: progress
\* C28: under every interleaving of timer ticks with node drags and speed
\* changes, currentIteration never decreases and bestTourLength never
\* increases, except by Reset and by Start after the iteration count was
\* reached (and by generating a new graph).
C28_ProgressKept ==
  [][ \/ /\ state'.currentIteration >= state.currentIteration
         /\ ~Lt(state.bestTourLength, state'.bestTourLength)
      \/ IsReset
      \/ IsRestart
      \/ event'.name = "generate"
    ]_vars

====
